---- MODULE Spec2Model ----
(***************************************************************************)
(* Dino Wallet Service: the double-entry transfer engine                   *)
(* (WalletService._executeTransfer), its repositories and withTransaction, *)
(* running against PostgreSQL at READ COMMITTED.                           *)
(*                                                                         *)
(* One action is one awaited storage statement together with the           *)
(* synchronous JavaScript that runs after it resolves, up to the next      *)
(* await.  Uncommitted writes of a transactional scope are kept per        *)
(* handler in `pending` and become visible to the others at COMMIT.        *)
(***************************************************************************)
EXTENDS Integers, Sequences, FiniteSets, TLC

\* ------------------------------------------------------------------ bounds
NumProcs == 2   \* concurrently running request handlers
MaxRequests == 2   \* requests accepted in one run
SeedGold == 2   \* Gold Coins credited to alice by the seed transaction

Procs == 1..NumProcs
None  == "none"
NoTx  == 0

\* ------------------------------------------------------- seeded identifiers
goldCoins     == "11111111-0000-0000-0000-000000000001"
diamonds      == "11111111-0000-0000-0000-000000000002"
treasury      == "22222222-0000-0000-0000-000000000001"
bonusPool     == "22222222-0000-0000-0000-000000000002"
revenue       == "22222222-0000-0000-0000-000000000003"
alice         == "33333333-0000-0000-0000-000000000001"
aliceGold     == 1
\* another spelling of the revenue wallet's UUID that PostgreSQL's uuid input
\* accepts (a hyphen after every group of four digits)
revenueAlt    == "2222-2222-0000-0000-0000-0000-0000-0003"
\* a well-formed UUID that names no wallet row
unknownWallet == "33333333-0000-0000-0000-000000000009"
\* a well-formed UUID that names no asset_types row
unknownAsset  == "11111111-0000-0000-0000-000000000009"

WalletIdStrings == {treasury, bonusPool, revenue, alice, revenueAlt, unknownWallet}

\* UTF-16 code units of the identifier strings
CodeUnits(s) ==
  CASE s = treasury ->
         <<50,50,50,50,50,50,50,50,45,48,48,48,48,45,48,48,48,48,45,48,48,48,48,45,48,48,48,48,48,48,48,48,48,48,48,49>>
    [] s = bonusPool ->
         <<50,50,50,50,50,50,50,50,45,48,48,48,48,45,48,48,48,48,45,48,48,48,48,45,48,48,48,48,48,48,48,48,48,48,48,50>>
    [] s = revenue ->
         <<50,50,50,50,50,50,50,50,45,48,48,48,48,45,48,48,48,48,45,48,48,48,48,45,48,48,48,48,48,48,48,48,48,48,48,51>>
    [] s = alice ->
         <<51,51,51,51,51,51,51,51,45,48,48,48,48,45,48,48,48,48,45,48,48,48,48,45,48,48,48,48,48,48,48,48,48,48,48,49>>
    [] s = revenueAlt ->
         <<50,50,50,50,45,50,50,50,50,45,48,48,48,48,45,48,48,48,48,45,48,48,48,48,45,48,48,48,48,45,48,48,48,48,45,48,48,48,51>>
    [] s = unknownWallet ->
         <<51,51,51,51,51,51,51,51,45,48,48,48,48,45,48,48,48,48,45,48,48,48,48,45,48,48,48,48,48,48,48,48,48,48,48,57>>

\* Array.prototype.sort() without comparator: ascending by UTF-16 code units
JsLess(a, b) ==
  LET x == CodeUnits(a)
      y == CodeUnits(b)
  IN  \E i \in 1..Len(y) :
        /\ \A j \in 1..(i-1) : j <= Len(x) /\ x[j] = y[j]
        /\ (i > Len(x) \/ x[i] < y[i])

\* the UUID value a text parameter denotes in `WHERE id = $1` on a UUID column:
\* hyphens are dropped and upper-case hex digits folded
UuidIn(s) ==
  LET h == SelectSeq(CodeUnits(s), LAMBDA c : c # 45)
  IN  [i \in 1..Len(h) |-> IF h[i] \in 65..70 THEN h[i] + 32 ELSE h[i]]

\* both, tabulated over the identifiers in use
UuidOf  == [s \in WalletIdStrings |-> UuidIn(s)]
JsOrder == [a \in WalletIdStrings |-> {b \in WalletIdStrings : JsLess(a, b)}]

\* ------------------------------------------------------------------- state
VARIABLES
  wallets,           \* table wallets: id -> row
  asset_types,       \* table asset_types: id -> row
  transactions,      \* table transactions (committed headers)
  ledger_entries,    \* table ledger_entries (committed)
  idempotency_keys,  \* table idempotency_keys (committed); expired <=> expires_at <= NOW()
  pc,                \* position of each handler
  req,               \* the request a handler is serving
  ft,                \* fromWalletId / toWalletId of the transfer
  calls,             \* requests accepted so far
  attempt,           \* withTransaction: attempt
  toLock,            \* lockWallets: sortedIds still to lock
  locked,            \* lockWallets: rows read FOR UPDATE by this scope, in order
  txId,              \* uuidv4() of the current attempt
  txCount,           \* uuids generated by a handler
  pending,           \* uncommitted writes of the open scope
  err,               \* error caught by withTransaction
  result,            \* the response last returned to the caller of each handler
  view,              \* the response last returned by a read endpoint
  pool               \* pg.Pool: max, the clients checked out, the client held by each handler

dbVars   == <<wallets, asset_types, transactions, ledger_entries, idempotency_keys>>
procVars == <<pc, req, ft, calls, attempt, toLock, locked, txId, txCount, pending, err>>
vars     == <<wallets, asset_types, transactions, ledger_entries, idempotency_keys,
              pc, req, ft, calls, attempt, toLock, locked, txId, txCount, pending, err,
              result, view, pool>>

\* ------------------------------------------------------------- WalletService
SYSTEM_REFS == [topup |-> "system:treasury", bonus |-> "system:bonus_pool", spend |-> "system:revenue"]

MaxRetries == 3

NoPending == [tx |-> {}, entries |-> {}, idem |-> {}]
NoReq     == [flow |-> None, walletId |-> None, assetTypeId |-> None, body_amount |-> <<>>,
              amount |-> 0, reference |-> None, initiatedBy |-> None, metadata |-> None,
              idemKey |-> None]
NoFt      == [fromWalletId |-> None, toWalletId |-> None]
NoData    == [transaction_id |-> NoTx, transaction_type |-> None, reference |-> None,
              asset_type_id |-> None, asset_symbol |-> None, amount |-> 0,
              from_wallet_id |-> None, to_wallet_id |-> None]

\* Number.prototype.toString for the integers in use: the UTF-16 code units of
\* the decimal numeral ('-' is 45, '0'..'9' are 48..57)
RECURSIVE Digits(_)
Digits(n) == IF n < 10 THEN <<48 + n>> ELSE Append(Digits(n \div 10), 48 + (n % 10))

NumberToString(n) == IF n < 0 THEN <<45>> \o Digits(0 - n) ELSE Digits(n)

RECURSIVE LeadingDigits(_)
LeadingDigits(s) ==
  IF s = <<>> \/ Head(s) \notin 48..57 THEN <<>> ELSE <<Head(s)>> \o LeadingDigits(Tail(s))

RECURSIVE DigitsValue(_)
DigitsValue(d) ==
  IF d = <<>> THEN 0 ELSE 10 * DigitsValue(SubSeq(d, 1, Len(d) - 1)) + (d[Len(d)] - 48)

\* parseFloat on the string form of its argument: an optional sign and the
\* longest prefix of decimal digits, whatever follows them; NaN when there is
\* no such prefix.  (No input in use has white space, a fraction or an exponent.)
parseFloat(s) ==
  LET neg  == s # <<>> /\ Head(s) = 45
      rest == IF s # <<>> /\ Head(s) \in {43, 45} THEN Tail(s) ELSE s
      d    == LeadingDigits(rest)
  IN  [nan |-> d = <<>>,
       value |-> IF neg THEN 0 - DigitsValue(d) ELSE DigitsValue(d)]

isNaN(x) == x.nan

\* walletRoutes validateTransferBody: the amount and reference checks and the body handed to
\* the service, which carries the parsed number, initiated_by || 'system' and
\* metadata || null
validateTransferBody(r) ==
  LET numAmount == parseFloat(r.body_amount)
  IN  [error |-> IF isNaN(numAmount) \/ numAmount.value <= 0 \/ r.reference = ""
                   THEN "BadRequest" ELSE None,
       body  |-> [r EXCEPT !.amount = numAmount.value,
                           !.initiatedBy = IF @ = None THEN "system" ELSE @]]

\* WalletRepository.getSystemWalletByRef
getSystemWalletByRef(ref) ==
  LET rows == {w \in DOMAIN wallets : /\ wallets[w].owner_ref = ref
                                      /\ wallets[w].owner_type = "system"
                                      /\ wallets[w].is_active}
  IN  IF rows = {} THEN None ELSE CHOOSE w \in rows : TRUE

\* the row selected by `WHERE id = $1`
RowOf(id) ==
  LET rows == {w \in DOMAIN wallets : UuidOf[w] = UuidOf[id]}
  IN  IF rows = {} THEN None ELSE CHOOSE w \in rows : TRUE

\* hashRequest over a body that lacks the amount
hashRequestNoAmount(body) ==
  <<"assetTypeId", body.assetTypeId, "reference", body.reference>>

\* IdempotencyRepository.hashRequest: the canonical encoding with sorted keys;
\* SHA-256 is taken to be injective on it
hashRequest(body) ==
  <<"amount", body.amount, "assetTypeId", body.assetTypeId, "reference", body.reference>>

\* the hash taken over metadata and initiatedBy as well
RequestHashWithMetadata(r) ==
  <<hashRequest([assetTypeId |-> r.assetTypeId, amount |-> r.amount, reference |-> r.reference]),
    r.initiatedBy, r.metadata>>

\* WalletService._executeTransfer: requestHash
RequestHash(r) ==
  hashRequest([assetTypeId |-> r.assetTypeId, amount |-> r.amount, reference |-> r.reference])

\* the read with the expiry comparison inverted (expires_at <= NOW())
IdemGetRowsExpired(key) == {k \in idempotency_keys : k.idem_key = key /\ k.expired}

\* IdempotencyRepository.get: the unexpired record of a key, if any
IdemGetRows(key) == {k \in idempotency_keys : k.idem_key = key /\ ~k.expired}

\* WalletRepository.lockWallets: [...new Set(walletIds)].sort()
SortedIds(a, b) ==
  IF a = b THEN <<a>>
  ELSE IF a \in JsOrder[b] THEN <<b, a>> ELSE <<a, b>>

RECURSIVE SumSigned(_)
SumSigned(es) ==
  IF es = {} THEN 0
  ELSE LET e == CHOOSE x \in es : TRUE
       IN  (IF e.direction = "credit" THEN e.amount ELSE 0 - e.amount)
             + SumSigned(es \ {e})

\* LedgerRepository.getBalanceForAsset over a set of visible entries
BalanceIn(entries, walletId, assetTypeId) ==
  SumSigned({e \in entries : e.wallet_id = RowOf(walletId) /\ e.asset_type_id = assetTypeId})

\* the COALESCEd NUMERIC sum arrives as its numeral and goes through parseFloat
getBalanceForAsset(p, walletId, assetTypeId) ==
  parseFloat(NumberToString(
    BalanceIn(ledger_entries \cup pending[p].entries, walletId, assetTypeId))).value

\* the TEXT values of wallets.owner_type and wallets.label, as code points
TextUnits(s) ==
  CASE s = "system"        -> <<115, 121, 115, 116, 101, 109>>
    [] s = "user"          -> <<117, 115, 101, 114>>
    [] s = "Treasury"      -> <<84, 114, 101, 97, 115, 117, 114, 121>>
    [] s = "Bonus Pool"    -> <<66, 111, 110, 117, 115, 32, 80, 111, 111, 108>>
    [] s = "Revenue"       -> <<82, 101, 118, 101, 110, 117, 101>>
    [] s = "alice@dino.gg" -> <<97, 108, 105, 99, 101, 64, 100, 105, 110, 111, 46, 103, 103>>

\* PostgreSQL's `<` on TEXT (the values in use differ at their first letter,
\* where every collation agrees with the code points)
TextLess(a, b) ==
  LET x == TextUnits(a)
      y == TextUnits(b)
  IN  \E i \in 1..Len(y) :
        /\ \A j \in 1..(i-1) : j <= Len(x) /\ x[j] = y[j]
        /\ (i > Len(x) \/ x[i] < y[i])

\* ORDER BY owner_type DESC, label ASC: row a sorts before row b
ListOrder(a, b) ==
  \/ TextLess(wallets[b].owner_type, wallets[a].owner_type)
  \/ /\ wallets[a].owner_type = wallets[b].owner_type
     /\ TextLess(wallets[a].label, wallets[b].label)

RECURSIVE OrderRows(_)
OrderRows(rows) ==
  IF rows = {} THEN <<>>
  ELSE LET first == CHOOSE w \in rows : \A v \in rows \ {w} : ~ListOrder(v, w)
       IN  <<first>> \o OrderRows(rows \ {first})

\* WalletRepository.listAll: the ids of all rows, in the order of the query
listAll == OrderRows(DOMAIN wallets)

\* WalletRepository.getById
getById(id) == RowOf(id)

\* LedgerRepository.getBalance with the HAVING clause left out
getBalanceNoHaving(walletId) ==
  {[asset_type_id |-> a, symbol |-> asset_types[a].symbol,
    balance |-> NumberToString(BalanceIn(ledger_entries, walletId, a))] :
     a \in {x \in DOMAIN asset_types :
              \E e \in ledger_entries : e.wallet_id = RowOf(walletId) /\ e.asset_type_id = x}}

\* LedgerRepository.getBalance: one row per asset of the wallet's entries whose
\* signed sum is not zero; the NUMERIC sum reaches the caller as its numeral
getBalance(walletId) ==
  {[asset_type_id |-> a, symbol |-> asset_types[a].symbol,
    balance |-> NumberToString(BalanceIn(ledger_entries, walletId, a))] :
     a \in {x \in DOMAIN asset_types :
              /\ \E e \in ledger_entries : e.wallet_id = RowOf(walletId) /\ e.asset_type_id = x
              /\ BalanceIn(ledger_entries, walletId, x) # 0}}

\* a query-string parameter: absent, or present with its text
Absent      == [present |-> FALSE, text |-> <<>>]
Query(text) == [present |-> TRUE, text |-> text]

\* `req.query.x || d`: undefined and the empty string are falsy
OrDefault(q, d) == IF ~q.present \/ q.text = <<>> THEN d ELSE q.text

\* parseInt(s, 10): an optional sign and the longest prefix of decimal digits;
\* NaN when there is no such prefix
parseInt(s) ==
  LET neg  == s # <<>> /\ Head(s) = 45
      rest == IF s # <<>> /\ Head(s) \in {43, 45} THEN Tail(s) ELSE s
      d    == LeadingDigits(rest)
  IN  [nan |-> d = <<>>,
       value |-> IF neg THEN 0 - DigitsValue(d) ELSE DigitsValue(d)]

Num(n) == [nan |-> FALSE, value |-> n]
NaN    == [nan |-> TRUE, value |-> 0]

\* Math.min and Math.max: NaN as soon as one argument is NaN
MathMin(a, b) == IF a.nan \/ b.nan THEN NaN ELSE IF a.value <= b.value THEN a ELSE b
MathMax(a, b) == IF a.nan \/ b.nan THEN NaN ELSE IF a.value >= b.value THEN a ELSE b

\* LedgerRepository.getTotalCount
getTotalCount(walletId) ==
  parseInt(NumberToString(
    Cardinality({e \in ledger_entries : e.wallet_id = RowOf(walletId)}))).value

\* GET /wallets/:walletId/transactions: the limit and offset handed to the service
RouteLimit(q)  == MathMax(Num(1), MathMin(Num(100), parseInt(OrDefault(q, <<50, 48>>))))
RouteOffset(q) == MathMax(Num(0), parseInt(OrDefault(q, <<48>>)))

\* LedgerRepository.getHistory: the number of rows that LIMIT and OFFSET let through
HistoryCount(walletId, limit, offset) ==
  LET left == getTotalCount(walletId) - offset
  IN  IF left <= 0 THEN 0 ELSE IF left <= limit THEN left ELSE limit

NoView == [op |-> None, status |-> 0, wallet_id |-> None, query |-> <<Absent, Absent>>,
           wallets |-> <<>>, balances |-> {},
           limit |-> Num(0), offset |-> Num(0), total |-> 0, entries |-> 0]

\* errorHandler: HTTP status of a surfaced failure
errorHandler(e) ==
  CASE e = "BadRequest"    -> 400
    [] e = "NotFound"      -> 404
    [] e = "Conflict"      -> 409
    [] e = "Unprocessable" -> 422
    [] e = "23505"         -> 409
    [] e = "23503"         -> 422
    [] e = "23514"         -> 422
    [] e = "40001"         -> 503
    [] e = "40P01"         -> 503
    [] e = "57014"         -> 503
    [] OTHER               -> 500

\* err instanceof APIError
IsAPIError(e) == e \in {"BadRequest", "NotFound", "Conflict", "Unprocessable"}

\* err.message: the text an APIError was constructed with (one per class
\* here), the backend's message of a storage error, the engine's message of a
\* TypeError
ErrorMessage(e) ==
  CASE e = "BadRequest"    -> "Amount must be a positive number"
    [] e = "NotFound"      -> "Resource not found"
    [] e = "Conflict"      -> "Idempotency key reused with a different request body"
    [] e = "Unprocessable" -> "Insufficient balance"
    [] e = "TypeError"     -> "Cannot read properties of undefined (reading 'is_active')"
    [] e = "23505"         -> "duplicate key value violates unique constraint"
    [] e = "23503"         -> "insert or update on table violates foreign key constraint"
    [] e = "23514"         -> "new row for relation violates check constraint"
    [] e = "40001"         -> "could not serialize access due to concurrent update"
    [] e = "40P01"         -> "deadlock detected"
    [] e = "57014"         -> "canceling statement due to statement timeout"
    [] e = "22P02"         -> "invalid input syntax for type bigint"
    [] e = "08006"         -> "Connection terminated unexpectedly"
    [] OTHER               -> "internal error"

NoBody == [error |-> None, detail |-> None]

\* errorHandler with the unexpected error's own message in the body
errorHandlerBodyLeaky(e) ==
  IF IsAPIError(e) THEN [error |-> ErrorMessage(e), detail |-> None]
  ELSE CASE e = "23505" -> [error |-> "Duplicate resource - unique constraint violated", detail |-> None]
         [] e = "23503" -> [error |-> "Referenced resource does not exist", detail |-> None]
         [] e = "23514" -> [error |-> "Data constraint violated: ", detail |-> ErrorMessage(e)]
         [] e = "40001" -> [error |-> "Service temporarily unavailable, please retry", detail |-> None]
         [] e = "40P01" -> [error |-> "Transaction conflict, please retry", detail |-> None]
         [] e = "57014" -> [error |-> "Request timed out", detail |-> None]
         [] OTHER       -> [error |-> ErrorMessage(e), detail |-> None]

\* errorHandler: the JSON body of a surfaced failure; `detail` is the text
\* appended to the fixed prefix of a check violation
errorHandlerBody(e) ==
  IF IsAPIError(e) THEN [error |-> ErrorMessage(e), detail |-> None]
  ELSE CASE e = "23505" -> [error |-> "Duplicate resource - unique constraint violated", detail |-> None]
         [] e = "23503" -> [error |-> "Referenced resource does not exist", detail |-> None]
         [] e = "23514" -> [error |-> "Data constraint violated: ", detail |-> ErrorMessage(e)]
         [] e = "40001" -> [error |-> "Service temporarily unavailable, please retry", detail |-> None]
         [] e = "40P01" -> [error |-> "Transaction conflict, please retry", detail |-> None]
         [] e = "57014" -> [error |-> "Request timed out", detail |-> None]
         [] OTHER       -> [error |-> "Internal server error", detail |-> None]

\* route handler: res.status(fromCache ? 200 : 201)
SuccessStatus(fromCache) == IF fromCache THEN 200 ELSE 201

Failure(p, r, e) ==
  [req |-> r, status |-> errorHandler(e), error |-> e, body |-> errorHandlerBody(e),
   data |-> NoData, from_cache |-> FALSE]

Success(p, r, data, fromCache) ==
  [req |-> r, status |-> SuccessStatus(fromCache), error |-> None, body |-> NoBody,
   data |-> data, from_cache |-> fromCache]

NoResult == [req |-> NoReq, status |-> 0, error |-> None, body |-> NoBody,
             data |-> NoData, from_cache |-> FALSE]

\* --------------------------------------------------------------------- Init
InitState ==
  /\ wallets = [w \in {treasury, bonusPool, revenue, alice} |->
        CASE w = treasury  -> [owner_ref |-> "system:treasury",   owner_type |-> "system",
                               label |-> "Treasury", is_active |-> TRUE]
          [] w = bonusPool -> [owner_ref |-> "system:bonus_pool", owner_type |-> "system",
                               label |-> "Bonus Pool", is_active |-> TRUE]
          [] w = revenue   -> [owner_ref |-> "system:revenue",    owner_type |-> "system",
                               label |-> "Revenue", is_active |-> TRUE]
          [] w = alice     -> [owner_ref |-> "user:alice",        owner_type |-> "user",
                               label |-> "alice@dino.gg", is_active |-> TRUE]]
  /\ asset_types = [a \in {goldCoins, diamonds} |->
        [symbol |-> IF a = goldCoins THEN "GLD" ELSE "DIA", is_active |-> TRUE]]
  /\ transactions = {[id |-> aliceGold, transaction_type |-> "topup",
                       reference |-> "SEED-ALICE-GOLD", initiated_by |-> "system",
                       metadata |-> None]}
  /\ ledger_entries =
       {[transaction_id |-> aliceGold, wallet_id |-> treasury, asset_type_id |-> goldCoins,
         direction |-> "debit", amount |-> SeedGold],
        [transaction_id |-> aliceGold, wallet_id |-> alice, asset_type_id |-> goldCoins,
         direction |-> "credit", amount |-> SeedGold]}
  /\ idempotency_keys = {}
  /\ pc = [p \in Procs |-> "idle"]
  /\ req = [p \in Procs |-> NoReq]
  /\ ft = [p \in Procs |-> NoFt]
  /\ calls = 0
  /\ attempt = [p \in Procs |-> 0]
  /\ toLock = [p \in Procs |-> <<>>]
  /\ locked = [p \in Procs |-> <<>>]
  /\ txId = [p \in Procs |-> NoTx]
  /\ txCount = [p \in Procs |-> 0]
  /\ pending = [p \in Procs |-> NoPending]
  /\ err = [p \in Procs |-> None]
  /\ result = [p \in Procs |-> NoResult]
  /\ view = NoView

\* config.DB_POOL_MAX: parseInt(process.env.DB_POOL_MAX || '10', 10) with the
\* variable unset
DB_POOL_MAX == 10

\* new Pool({max}): no client is checked out
NewPool(max) == [max |-> max, checkedOut |-> 0, client |-> [p \in Procs |-> 0]]

\* the service started with the default configuration
Init == InitState /\ pool = NewPool(DB_POOL_MAX)

\* the clients checked out of the pool
CheckedOut == pool.checkedOut

\* pool.connect() and pool.query() resolve once fewer than max clients are
\* checked out; no connectionTimeoutMillis is set, so they wait until then
PoolFree == CheckedOut < pool.max

\* const client = await pool.connect()
Connect(p) ==
  /\ PoolFree
  /\ pool' = [pool EXCEPT !.checkedOut = @ + 1, !.client[p] = @ + 1]

\* finally { client.release() }
Release(p) == pool' = [pool EXCEPT !.checkedOut = @ - 1, !.client[p] = @ - 1]

\* ------------------------------------------------------------------ helpers
\* the handler returns: the response goes to the caller and the slot is free
Done(p, resp) ==
  /\ result' = [result EXCEPT ![p] = resp]
  /\ UNCHANGED view
  /\ pc' = [pc EXCEPT ![p] = "idle"]
  /\ req' = [req EXCEPT ![p] = NoReq]
  /\ ft' = [ft EXCEPT ![p] = NoFt]
  /\ attempt' = [attempt EXCEPT ![p] = 0]
  /\ toLock' = [toLock EXCEPT ![p] = <<>>]
  /\ locked' = [locked EXCEPT ![p] = <<>>]
  /\ txId' = [txId EXCEPT ![p] = NoTx]
  /\ pending' = [pending EXCEPT ![p] = NoPending]
  /\ err' = [err EXCEPT ![p] = None]

\* the callback of withTransaction throws e: control goes to the catch block
Throw(p, e) ==
  /\ err' = [err EXCEPT ![p] = e]
  /\ pc' = [pc EXCEPT ![p] = "rollback"]

\* rows whose FOR UPDATE lock a scope holds
LockedRows(q) == {locked[q][i].id : i \in 1..Len(locked[q])}

\* a plain SELECT, which never waits for a row lock
RowLockFreeNoWait(p, row) == TRUE

\* SELECT ... FOR UPDATE returns once no other open scope holds the row's lock
RowLockFree(p, row) == \A q \in Procs \ {p} : row \notin LockedRows(q)

\* active checks that look at the source wallet only
ActiveCheckSourceOnly(lk, fromWalletId, toWalletId) ==
  LET walletMap(id) == {lk[i] : i \in {j \in 1..Len(lk) : lk[j].id = id}}
  IN  IF walletMap(fromWalletId) = {} THEN "TypeError"
      ELSE IF \E w \in walletMap(fromWalletId) : ~w.is_active THEN "BadRequest"
      ELSE IF walletMap(toWalletId) = {} THEN "TypeError"
      ELSE None

\* WalletService._executeTransfer: the active checks on walletMap
ActiveCheck(lk, fromWalletId, toWalletId) ==
  LET walletMap(id) == {lk[i] : i \in {j \in 1..Len(lk) : lk[j].id = id}}
  IN  IF walletMap(fromWalletId) = {} THEN "TypeError"
      ELSE IF \E w \in walletMap(fromWalletId) : ~w.is_active THEN "BadRequest"
      ELSE IF walletMap(toWalletId) = {} THEN "TypeError"
      ELSE IF \E w \in walletMap(toWalletId) : ~w.is_active THEN "BadRequest"
      ELSE None

\* a transferResult that carries the id generated by the handler's first attempt
TransferResultStaleId(p) ==
  [transaction_id |-> 10 * p + 1, transaction_type |-> req[p].flow,
   reference |-> req[p].reference, asset_type_id |-> req[p].assetTypeId,
   asset_symbol |-> asset_types[req[p].assetTypeId].symbol, amount |-> req[p].amount,
   from_wallet_id |-> ft[p].fromWalletId, to_wallet_id |-> ft[p].toWalletId]

\* WalletService._executeTransfer: transferResult
TransferResult(p) ==
  [transaction_id |-> txId[p], transaction_type |-> req[p].flow,
   reference |-> req[p].reference, asset_type_id |-> req[p].assetTypeId,
   asset_symbol |-> asset_types[req[p].assetTypeId].symbol, amount |-> req[p].amount,
   from_wallet_id |-> ft[p].fromWalletId, to_wallet_id |-> ft[p].toWalletId]

\* insertEntry with the direction fixed to 'debit'
EntryAlwaysDebit(p, walletId, direction) ==
  [transaction_id |-> txId[p], wallet_id |-> RowOf(walletId),
   asset_type_id |-> req[p].assetTypeId, direction |-> "debit", amount |-> req[p].amount]

\* LedgerRepository.insertEntry: the row written
Entry(p, walletId, direction) ==
  [transaction_id |-> txId[p], wallet_id |-> RowOf(walletId),
   asset_type_id |-> req[p].assetTypeId, direction |-> direction, amount |-> req[p].amount]

\* the handlers a blocked statement of p waits for
WaitsFor(p) ==
  IF pc[p] = "lock" /\ toLock[p] # <<>>
    THEN {q \in Procs \ {p} : RowOf(Head(toLock[p])) \in LockedRows(q)}
  ELSE IF pc[p] = "idem_store"
    THEN {q \in Procs \ {p} : \E k \in pending[q].idem : k.idem_key = req[p].idemKey}
  ELSE {}

RECURSIVE ReachFrom(_, _)
ReachFrom(frontier, seen) ==
  LET next == UNION {WaitsFor(q) : q \in frontier} \ seen
  IN  IF next = {} THEN seen ELSE ReachFrom(next, seen \cup next)

\* p is on a cycle of the wait-for graph
InWaitCycle(p) == p \in ReachFrom({p}, {})

\* ------------------------------------------------------------------ actions
\* POST /wallets/:walletId/{topup,bonus,spend}: validateTransferBody, then
\* topUp / bonus / spend up to the idempotency read
Invoke(p, r) ==
  /\ pc[p] = "idle"
  /\ calls < MaxRequests
  /\ IF PoolFree THEN TRUE ELSE validateTransferBody(r).error # None
  /\ calls' = calls + 1
  /\ LET valid == validateTransferBody(r)
         body  == valid.body
         sys   == getSystemWalletByRef(SYSTEM_REFS[r.flow])
     IN  IF valid.error # None
           THEN Done(p, Failure(p, r, valid.error))
         ELSE IF sys = None
           THEN Done(p, Failure(p, body, "NotFound"))
         ELSE IF isNaN(parseFloat(NumberToString(body.amount))) \/ body.amount <= 0
           THEN Done(p, Failure(p, body, "BadRequest"))
         ELSE /\ pc' = [pc EXCEPT ![p] = "idem_get"]
              /\ req' = [req EXCEPT ![p] = body]
              /\ ft' = [ft EXCEPT ![p] =
                   IF r.flow = "spend"
                     THEN [fromWalletId |-> r.walletId, toWalletId |-> sys]
                     ELSE [fromWalletId |-> sys, toWalletId |-> r.walletId]]
              /\ UNCHANGED <<attempt, toLock, locked, txId, pending, err, result, view>>
  /\ UNCHANGED <<txCount, dbVars>>
  /\ UNCHANGED pool

\* service.topUp / bonus / spend called with a body that did not pass through
\* the route: the system wallet lookup, then _executeTransfer's own validation
\* (the amount only) and its default for initiatedBy
InvokeService(p, r) ==
  /\ pc[p] = "idle"
  /\ calls < MaxRequests
  /\ PoolFree
  /\ calls' = calls + 1
  /\ LET sys       == getSystemWalletByRef(SYSTEM_REFS[r.flow])
         numAmount == parseFloat(r.body_amount)
         args      == [r EXCEPT !.amount = numAmount.value,
                                !.initiatedBy = IF @ = None THEN "system" ELSE @]
     IN  IF sys = None
           THEN Done(p, Failure(p, r, "NotFound"))
         ELSE IF isNaN(numAmount) \/ numAmount.value <= 0
           THEN Done(p, Failure(p, r, "BadRequest"))
         ELSE /\ pc' = [pc EXCEPT ![p] = "idem_get"]
              /\ req' = [req EXCEPT ![p] = args]
              /\ ft' = [ft EXCEPT ![p] =
                   IF r.flow = "spend"
                     THEN [fromWalletId |-> r.walletId, toWalletId |-> sys]
                     ELSE [fromWalletId |-> sys, toWalletId |-> r.walletId]]
              /\ UNCHANGED <<attempt, toLock, locked, txId, pending, err, result, view>>
  /\ UNCHANGED <<txCount, dbVars>>
  /\ UNCHANGED pool

\* the idempotency read with the stored endpoint compared as well
IdemGetEndpointCheck(p) ==
  /\ pc[p] = "idem_get"
  /\ PoolFree
  /\ LET rows == IdemGetRows(req[p].idemKey)
     IN  IF rows # {}
           THEN LET existing == CHOOSE k \in rows : TRUE
                IN  IF \/ existing.request_hash # RequestHash(req[p])
                       \/ existing.endpoint # <<req[p].flow, req[p].walletId>>
                      THEN Done(p, Failure(p, req[p], "Conflict"))
                      ELSE Done(p, Success(p, req[p], existing.response_body, TRUE))
           ELSE /\ pc' = [pc EXCEPT ![p] = "asset_get"]
                /\ UNCHANGED <<req, ft, attempt, toLock, locked, txId, pending, err, result, view>>
  /\ UNCHANGED <<calls, txCount, dbVars>>
  /\ UNCHANGED pool

\* the optimistic idempotency read
IdemGet(p) ==
  /\ pc[p] = "idem_get"
  /\ PoolFree
  /\ LET rows == IdemGetRows(req[p].idemKey)
     IN  IF rows # {}
           THEN LET existing == CHOOSE k \in rows : TRUE
                IN  IF existing.request_hash # RequestHash(req[p])
                      THEN Done(p, Failure(p, req[p], "Conflict"))
                      ELSE Done(p, Success(p, req[p], existing.response_body, TRUE))
           ELSE /\ pc' = [pc EXCEPT ![p] = "asset_get"]
                /\ UNCHANGED <<req, ft, attempt, toLock, locked, txId, pending, err, result, view>>
  /\ UNCHANGED <<calls, txCount, dbVars>>
  /\ UNCHANGED pool

\* assetRepo.getById with the is_active check left out
AssetGetNoActiveCheck(p) ==
  /\ pc[p] = "asset_get"
  /\ PoolFree
  /\ IF req[p].assetTypeId \notin DOMAIN asset_types
       THEN Done(p, Failure(p, req[p], "NotFound"))
     ELSE /\ pc' = [pc EXCEPT ![p] = "begin"]
          /\ UNCHANGED <<req, ft, attempt, toLock, locked, txId, pending, err, result, view>>
  /\ UNCHANGED <<calls, txCount, dbVars>>
  /\ UNCHANGED pool

\* assetRepo.getById and the asset checks
AssetGet(p) ==
  /\ pc[p] = "asset_get"
  /\ PoolFree
  /\ IF req[p].assetTypeId \notin DOMAIN asset_types
       THEN Done(p, Failure(p, req[p], "NotFound"))
     ELSE IF ~asset_types[req[p].assetTypeId].is_active
       THEN Done(p, Failure(p, req[p], "BadRequest"))
     ELSE /\ pc' = [pc EXCEPT ![p] = "begin"]
          /\ UNCHANGED <<req, ft, attempt, toLock, locked, txId, pending, err, result, view>>
  /\ UNCHANGED <<calls, txCount, dbVars>>
  /\ UNCHANGED pool

\* a scope whose callback goes to its first write without lockWallets
BeginNoLocks(p) ==
  /\ pc[p] = "begin"
  /\ Connect(p)
  /\ pc' = [pc EXCEPT ![p] = IF req[p].flow = "spend" THEN "funds" ELSE "ins_tx"]
  /\ toLock' = [toLock EXCEPT ![p] = <<>>]
  /\ locked' = [locked EXCEPT ![p] = <<>>]
  /\ pending' = [pending EXCEPT ![p] = NoPending]
  /\ err' = [err EXCEPT ![p] = None]
  /\ UNCHANGED <<req, ft, calls, attempt, txId, txCount, result, view, dbVars>>

\* withTransaction: pool.connect() and BEGIN; lockWallets sorts the ids
Begin(p) ==
  /\ pc[p] = "begin"
  /\ Connect(p)
  /\ pc' = [pc EXCEPT ![p] = "lock"]
  /\ toLock' = [toLock EXCEPT ![p] = SortedIds(ft[p].fromWalletId, ft[p].toWalletId)]
  /\ locked' = [locked EXCEPT ![p] = <<>>]
  /\ pending' = [pending EXCEPT ![p] = NoPending]
  /\ err' = [err EXCEPT ![p] = None]
  /\ UNCHANGED <<req, ft, calls, attempt, txId, txCount, result, view, dbVars>>

\* lockWallets followed by a funds check for every flow, not for spend only
LockNextFundsAll(p) ==
  /\ pc[p] = "lock"
  /\ toLock[p] # <<>>
  /\ LET id  == Head(toLock[p])
         row == RowOf(id)
     IN  IF row = None
           THEN /\ Throw(p, "NotFound")
                /\ UNCHANGED <<toLock, locked>>
         ELSE /\ RowLockFree(p, row)
              /\ LET lk == Append(locked[p], [id |-> row, is_active |-> wallets[row].is_active])
                     chk == ActiveCheck(lk, ft[p].fromWalletId, ft[p].toWalletId)
                 IN  /\ locked' = [locked EXCEPT ![p] = lk]
                     /\ toLock' = [toLock EXCEPT ![p] = Tail(@)]
                     /\ IF Tail(toLock[p]) # <<>>
                          THEN UNCHANGED <<pc, err>>
                        ELSE IF chk # None
                          THEN Throw(p, chk)
                        ELSE /\ pc' = [pc EXCEPT ![p] = "funds"]
                             /\ UNCHANGED err
  /\ UNCHANGED <<req, ft, calls, attempt, txId, txCount, pending, result, view, dbVars>>
  /\ UNCHANGED pool

\* lockWallets: one SELECT ... FOR UPDATE; after the last one the active checks
LockNext(p) ==
  /\ pc[p] = "lock"
  /\ toLock[p] # <<>>
  /\ LET id  == Head(toLock[p])
         row == RowOf(id)
     IN  IF row = None
           THEN /\ Throw(p, "NotFound")
                /\ UNCHANGED <<toLock, locked>>
         ELSE /\ RowLockFree(p, row)
              /\ LET lk == Append(locked[p], [id |-> row, is_active |-> wallets[row].is_active])
                     chk == ActiveCheck(lk, ft[p].fromWalletId, ft[p].toWalletId)
                 IN  /\ locked' = [locked EXCEPT ![p] = lk]
                     /\ toLock' = [toLock EXCEPT ![p] = Tail(@)]
                     /\ IF Tail(toLock[p]) # <<>>
                          THEN UNCHANGED <<pc, err>>
                        ELSE IF chk # None
                          THEN Throw(p, chk)
                        ELSE /\ pc' = [pc EXCEPT ![p] =
                                  IF req[p].flow = "spend" THEN "funds" ELSE "ins_tx"]
                             /\ UNCHANGED err
  /\ UNCHANGED <<req, ft, calls, attempt, txId, txCount, pending, result, view, dbVars>>
  /\ UNCHANGED pool

\* a spend that reads no balance and goes on to the header insert
FundsCheckSkipped(p) ==
  /\ pc[p] = "funds"
  /\ pc' = [pc EXCEPT ![p] = "ins_tx"]
  /\ UNCHANGED <<req, ft, calls, attempt, toLock, locked, txId, txCount, pending, err, result,
                 view, dbVars>>
  /\ UNCHANGED pool

\* spend only: getBalanceForAsset under the lock and the funds check
FundsCheck(p) ==
  /\ pc[p] = "funds"
  /\ IF getBalanceForAsset(p, ft[p].fromWalletId, req[p].assetTypeId) < req[p].amount
       THEN Throw(p, "Unprocessable")
       ELSE /\ pc' = [pc EXCEPT ![p] = "ins_tx"]
            /\ UNCHANGED err
  /\ UNCHANGED <<req, ft, calls, attempt, toLock, locked, txId, txCount, pending, result, view, dbVars>>
  /\ UNCHANGED pool

\* txRepo.insert issued through pool.query: it needs a second client of the pool
InsertTxOnPool(p) ==
  /\ pc[p] = "ins_tx"
  /\ PoolFree
  /\ txCount' = [txCount EXCEPT ![p] = @ + 1]
  /\ txId' = [txId EXCEPT ![p] = 10 * p + txCount[p] + 1]
  /\ pending' = [pending EXCEPT ![p].tx =
       {[id |-> 10 * p + txCount[p] + 1, transaction_type |-> req[p].flow,
         reference |-> req[p].reference, initiated_by |-> req[p].initiatedBy,
         metadata |-> req[p].metadata]}]
  /\ pc' = [pc EXCEPT ![p] = "ins_debit"]
  /\ UNCHANGED <<req, ft, calls, attempt, toLock, locked, err, result, view, dbVars>>
  /\ UNCHANGED pool

\* uuidv4() and txRepo.insert
InsertTx(p) ==
  /\ pc[p] = "ins_tx"
  /\ txCount' = [txCount EXCEPT ![p] = @ + 1]
  /\ txId' = [txId EXCEPT ![p] = 10 * p + txCount[p] + 1]
  /\ pending' = [pending EXCEPT ![p].tx =
       {[id |-> 10 * p + txCount[p] + 1, transaction_type |-> req[p].flow,
         reference |-> req[p].reference, initiated_by |-> req[p].initiatedBy,
         metadata |-> req[p].metadata]}]
  /\ pc' = [pc EXCEPT ![p] = "ins_debit"]
  /\ UNCHANGED <<req, ft, calls, attempt, toLock, locked, err, result, view, dbVars>>
  /\ UNCHANGED pool

\* the debit issued outside the scope's connection, so that it commits by itself
InsertDebitAutocommit(p) ==
  /\ pc[p] = "ins_debit"
  /\ ledger_entries' = ledger_entries \cup {Entry(p, ft[p].fromWalletId, "debit")}
  /\ pc' = [pc EXCEPT ![p] = "ins_credit"]
  /\ UNCHANGED <<req, ft, calls, attempt, toLock, locked, txId, txCount, pending, err, result, view,
                 wallets, asset_types, transactions, idempotency_keys>>
  /\ UNCHANGED pool

\* ledgerRepo.insertEntry, debit on the source wallet
InsertDebit(p) ==
  /\ pc[p] = "ins_debit"
  /\ pending' = [pending EXCEPT ![p].entries = @ \cup {Entry(p, ft[p].fromWalletId, "debit")}]
  /\ pc' = [pc EXCEPT ![p] = "ins_credit"]
  /\ UNCHANGED <<req, ft, calls, attempt, toLock, locked, txId, txCount, err, result, view, dbVars>>
  /\ UNCHANGED pool

\* ledgerRepo.insertEntry, credit on the destination wallet
InsertCredit(p) ==
  /\ pc[p] = "ins_credit"
  /\ pending' = [pending EXCEPT ![p].entries = @ \cup {Entry(p, ft[p].toWalletId, "credit")}]
  /\ pc' = [pc EXCEPT ![p] = "idem_store"]
  /\ UNCHANGED <<req, ft, calls, attempt, toLock, locked, txId, txCount, err, result, view, dbVars>>
  /\ UNCHANGED pool

\* the store on a table without the UNIQUE constraint on idem_key: a plain INSERT
IdemStoreNoUnique(p) ==
  /\ pc[p] = "idem_store"
  /\ pending' = [pending EXCEPT ![p].idem =
       {[idem_key |-> req[p].idemKey,
         endpoint |-> <<req[p].flow, req[p].walletId>>,
         request_hash |-> RequestHash(req[p]),
         response_status |-> 201,
         response_body |-> TransferResult(p),
         transaction_id |-> txId[p],
         expired |-> FALSE]}]
  /\ pc' = [pc EXCEPT ![p] = "commit"]
  /\ UNCHANGED <<req, ft, calls, attempt, toLock, locked, txId, txCount, err, result, view, dbVars>>
  /\ UNCHANGED pool

\* IdempotencyRepository.store: INSERT ... ON CONFLICT (idem_key) DO NOTHING.
\* The insert waits while another open scope holds an uncommitted row of the key.
IdemStore(p) ==
  /\ pc[p] = "idem_store"
  /\ WaitsFor(p) = {}
  /\ pending' = [pending EXCEPT ![p].idem =
       IF \E k \in idempotency_keys : k.idem_key = req[p].idemKey
         THEN {}
         ELSE {[idem_key |-> req[p].idemKey,
                endpoint |-> <<req[p].flow, req[p].walletId>>,
                request_hash |-> RequestHash(req[p]),
                response_status |-> 201,
                response_body |-> TransferResult(p),
                transaction_id |-> txId[p],
                expired |-> FALSE]}]
  /\ pc' = [pc EXCEPT ![p] = "commit"]
  /\ UNCHANGED <<req, ft, calls, attempt, toLock, locked, txId, txCount, err, result, view, dbVars>>
  /\ UNCHANGED pool

\* a COMMIT that replaces the ledger by the scope's entries
CommitOverwrite(p) ==
  /\ pc[p] = "commit"
  /\ transactions' = transactions \cup pending[p].tx
  /\ ledger_entries' = pending[p].entries
  /\ idempotency_keys' = idempotency_keys \cup pending[p].idem
  /\ Done(p, Success(p, req[p], TransferResult(p), FALSE))
  /\ UNCHANGED <<wallets, asset_types, calls, txCount>>
  /\ Release(p)

\* COMMIT, release, and the 201 response
Commit(p) ==
  /\ pc[p] = "commit"
  /\ transactions' = transactions \cup pending[p].tx
  /\ ledger_entries' = ledger_entries \cup pending[p].entries
  /\ idempotency_keys' = idempotency_keys \cup pending[p].idem
  /\ Done(p, Success(p, req[p], TransferResult(p), FALSE))
  /\ UNCHANGED <<wallets, asset_types, calls, txCount>>
  /\ Release(p)

\* withTransaction with every error taken to be retryable
RollbackRetryAny(p) ==
  /\ pc[p] = "rollback"
  /\ IF attempt[p] < MaxRetries - 1
       THEN /\ attempt' = [attempt EXCEPT ![p] = @ + 1]
            /\ pc' = [pc EXCEPT ![p] = "begin"]
            /\ locked' = [locked EXCEPT ![p] = <<>>]
            /\ toLock' = [toLock EXCEPT ![p] = <<>>]
            /\ pending' = [pending EXCEPT ![p] = NoPending]
            /\ txId' = [txId EXCEPT ![p] = NoTx]
            /\ UNCHANGED <<req, ft, err, result, view>>
       ELSE Done(p, Failure(p, req[p], err[p]))
  /\ UNCHANGED <<calls, txCount, dbVars>>
  /\ Release(p)

\* withTransaction: catch { ROLLBACK; retry or rethrow } finally { release }
Rollback(p) ==
  /\ pc[p] = "rollback"
  /\ IF err[p] \in {"40001", "40P01"} /\ attempt[p] < MaxRetries - 1
       THEN /\ attempt' = [attempt EXCEPT ![p] = @ + 1]
            /\ pc' = [pc EXCEPT ![p] = "begin"]
            /\ locked' = [locked EXCEPT ![p] = <<>>]
            /\ toLock' = [toLock EXCEPT ![p] = <<>>]
            /\ pending' = [pending EXCEPT ![p] = NoPending]
            /\ txId' = [txId EXCEPT ![p] = NoTx]
            /\ UNCHANGED <<req, ft, err, result, view>>
       ELSE Done(p, Failure(p, req[p], err[p]))
  /\ UNCHANGED <<calls, txCount, dbVars>>
  /\ Release(p)

\* a rejected ROLLBACK whose error leaves withTransaction without the release
RollbackFailsNoRelease(p) ==
  /\ pc[p] = "rollback"
  /\ Done(p, Failure(p, req[p], "08006"))
  /\ UNCHANGED <<calls, txCount, dbVars>>
  /\ UNCHANGED pool

\* withTransaction: client.query('ROLLBACK') in the catch block rejects (the
\* connection is gone): its error leaves the catch block in place of the caught
\* one, finally releases the client, and the backend drops the open transaction
RollbackFails(p) ==
  /\ pc[p] = "rollback"
  /\ Done(p, Failure(p, req[p], "08006"))
  /\ UNCHANGED <<calls, txCount, dbVars>>
  /\ Release(p)

\* PostgreSQL's deadlock detector aborts the statement of a scope on a wait cycle
DeadlockDetected(p) ==
  /\ InWaitCycle(p)
  /\ Throw(p, "40P01")
  /\ UNCHANGED <<req, ft, calls, attempt, toLock, locked, txId, txCount, pending, result, view, dbVars>>
  /\ UNCHANGED pool

\* the record of a key is deleted when it reaches its expires_at
ExpireDeletes(k) ==
  /\ k \in idempotency_keys
  /\ ~k.expired
  /\ idempotency_keys' = idempotency_keys \ {k}
  /\ UNCHANGED <<wallets, asset_types, transactions, ledger_entries, procVars, result, view>>
  /\ UNCHANGED pool

\* time passes: the record of a key reaches its expires_at
Expire(k) ==
  /\ k \in idempotency_keys
  /\ ~k.expired
  /\ idempotency_keys' = (idempotency_keys \ {k}) \cup {[k EXCEPT !.expired = TRUE]}
  /\ UNCHANGED <<wallets, asset_types, transactions, ledger_entries, procVars, result, view>>
  /\ UNCHANGED pool

\* a statement of the open scope (BEGIN ... COMMIT) is aborted by the storage
\* backend: serialization failure, deadlock detected, or statement_timeout; a
\* failed BEGIN is issued on the client that pool.connect() just returned
StatementFails(p, code) ==
  /\ pc[p] \in {"begin", "lock", "funds", "ins_tx", "ins_debit", "ins_credit", "idem_store", "commit"}
  /\ Throw(p, code)
  /\ IF pc[p] = "begin" THEN Connect(p) ELSE UNCHANGED pool
  /\ UNCHANGED <<req, ft, calls, attempt, toLock, locked, txId, txCount, pending, result, view, dbVars>>

\* a refused INSERT after which the scope's idempotency record is committed
\* all the same
InsertFailsKeepsKey(p, code) ==
  /\ pc[p] \in {"ins_tx", "ins_debit", "ins_credit", "idem_store"}
  /\ Throw(p, code)
  /\ idempotency_keys' = idempotency_keys \cup
       {[idem_key |-> req[p].idemKey,
         endpoint |-> <<req[p].flow, req[p].walletId>>,
         request_hash |-> RequestHash(req[p]),
         response_status |-> 201,
         response_body |-> TransferResult(p),
         transaction_id |-> txId[p],
         expired |-> FALSE]}
  /\ UNCHANGED <<req, ft, calls, attempt, toLock, locked, txId, txCount, pending, result, view,
                 wallets, asset_types, transactions, ledger_entries>>
  /\ UNCHANGED pool

\* an INSERT of the open scope is refused by the storage backend: a constraint
\* violation or an internal error
InsertFails(p, code) ==
  /\ pc[p] \in {"ins_tx", "ins_debit", "ins_credit", "idem_store"}
  /\ Throw(p, code)
  /\ UNCHANGED <<req, ft, calls, attempt, toLock, locked, txId, txCount, pending, result, view, dbVars>>
  /\ UNCHANGED pool

\* the process exits with requests in flight (forced shutdown): every open
\* connection is closed and PostgreSQL rolls its open transaction back; no
\* response is sent
ProcessExit ==
  /\ \E p \in Procs : pc[p] # "idle"
  /\ pc' = [p \in Procs |-> "idle"]
  /\ req' = [p \in Procs |-> NoReq]
  /\ ft' = [p \in Procs |-> NoFt]
  /\ attempt' = [p \in Procs |-> 0]
  /\ toLock' = [p \in Procs |-> <<>>]
  /\ locked' = [p \in Procs |-> <<>>]
  /\ txId' = [p \in Procs |-> NoTx]
  /\ pending' = [p \in Procs |-> NoPending]
  /\ err' = [p \in Procs |-> None]
  /\ UNCHANGED <<calls, txCount, result, view, dbVars>>
  /\ pool' = NewPool(pool.max)

\* an operator's UPDATE wallets SET is_active = FALSE: it waits for the row
\* lock of an open scope
DeactivateWallet(w) ==
  /\ w \in DOMAIN wallets
  /\ wallets[w].is_active
  /\ \A q \in Procs : w \notin LockedRows(q)
  /\ wallets' = [wallets EXCEPT ![w].is_active = FALSE]
  /\ UNCHANGED <<asset_types, transactions, ledger_entries, idempotency_keys, procVars, result, view>>
  /\ UNCHANGED pool

\* an operator's UPDATE asset_types SET is_active = FALSE
DeactivateAsset(a) ==
  /\ a \in DOMAIN asset_types
  /\ asset_types[a].is_active
  /\ asset_types' = [asset_types EXCEPT ![a].is_active = FALSE]
  /\ UNCHANGED <<wallets, transactions, ledger_entries, idempotency_keys, procVars, result, view>>
  /\ UNCHANGED pool

\* GET /wallets: service.listWallets
ListWallets ==
  /\ calls < MaxRequests
  /\ PoolFree
  /\ calls' = calls + 1
  /\ view' = [NoView EXCEPT !.op = "listWallets", !.status = 200, !.wallets = listAll]
  /\ UNCHANGED <<pc, req, ft, attempt, toLock, locked, txId, txCount, pending, err, result, dbVars>>
  /\ UNCHANGED pool

\* GET /wallets/:walletId/balance: service.getBalance
GetBalance(walletId) ==
  /\ calls < MaxRequests
  /\ PoolFree
  /\ calls' = calls + 1
  /\ view' = IF getById(walletId) = None
               THEN [NoView EXCEPT !.op = "getBalance", !.status = errorHandler("NotFound"),
                                   !.wallet_id = walletId]
               ELSE [NoView EXCEPT !.op = "getBalance", !.status = 200,
                                   !.wallet_id = walletId, !.balances = getBalance(walletId)]
  /\ UNCHANGED <<pc, req, ft, attempt, toLock, locked, txId, txCount, pending, err, result, dbVars>>
  /\ UNCHANGED pool

\* GET /wallets/:walletId/transactions: the route's clamping, then
\* service.getTransactions; a NaN bound to LIMIT or OFFSET is refused by the
\* backend (22P02), which errorHandler reports as 500
GetTransactions(walletId, limitQuery, offsetQuery) ==
  /\ calls < MaxRequests
  /\ PoolFree
  /\ calls' = calls + 1
  /\ LET limit  == RouteLimit(limitQuery)
         offset == RouteOffset(offsetQuery)
         call   == [NoView EXCEPT !.op = "getTransactions", !.wallet_id = walletId,
                                  !.query = <<limitQuery, offsetQuery>>,
                                  !.limit = limit, !.offset = offset]
     IN  view' = IF getById(walletId) = None
                   THEN [call EXCEPT !.status = errorHandler("NotFound")]
                 ELSE IF limit.nan \/ offset.nan
                   THEN [call EXCEPT !.status = errorHandler("22P02")]
                 ELSE [call EXCEPT !.status = 200,
                                   !.total = getTotalCount(walletId),
                                   !.entries = HistoryCount(walletId, limit.value, offset.value)]
  /\ UNCHANGED <<pc, req, ft, attempt, toLock, locked, txId, txCount, pending, err, result, dbVars>>
  /\ UNCHANGED pool

\* ----------------------------------------------------------- specifications
Amounts == {1, 2}
KeyOf(p) == IF p = 1 THEN "k1" ELSE IF p = 2 THEN "k2" ELSE "k3"

\* a request as sent: body_amount is the text of the body's amount, and amount
\* (the validated number) is not yet set
RequestOf(flow, walletId, assetTypeId, bodyAmount, idemKey) ==
  [flow |-> flow, walletId |-> walletId, assetTypeId |-> assetTypeId,
   body_amount |-> bodyAmount, amount |-> 0, reference |-> "REF-1",
   initiatedBy |-> None, metadata |-> None, idemKey |-> idemKey]

\* a request whose body carries the amount as a JSON number
Request(flow, walletId, assetTypeId, amount, idemKey) ==
  RequestOf(flow, walletId, assetTypeId, NumberToString(amount), idemKey)

\* a request whose body also carries initiated_by and metadata
RequestBy(flow, walletId, assetTypeId, amount, idemKey, initiatedBy, metadata) ==
  [Request(flow, walletId, assetTypeId, amount, idemKey)
     EXCEPT !.initiatedBy = initiatedBy, !.metadata = metadata]

\* retries and reuses of one idempotency key
IdemRequests ==
  {Request(f, alice, goldCoins, a, "k1") : f \in {"topup", "spend"}, a \in Amounts}

\* the three flows on a user wallet and on the system wallets, one key per caller
LedgerRequests(p) ==
  {Request(f, alice, goldCoins, a, KeyOf(p)) : f \in {"topup", "spend"}, a \in Amounts}
    \cup {Request("bonus", alice, diamonds, 1, KeyOf(p)),
          Request("bonus", alice, goldCoins, 1, KeyOf(p)),
          Request("topup", treasury, goldCoins, 1, KeyOf(p)),
          Request("spend", revenue, goldCoins, 1, KeyOf(p))}

\* transfers over every spelling of a wallet id, one key per caller
LockRequests(p) ==
  {Request(f, w, goldCoins, 1, KeyOf(p)) : f \in {"topup", "spend"},
                                           w \in {alice, revenue, revenueAlt, unknownWallet}}

\* one topup and one spend per caller, run against a failing backend
FaultRequests(p) ==
  {Request(f, alice, goldCoins, 1, KeyOf(p)) : f \in {"topup", "spend"}}

\* the handlers on whose connection the backend aborts statements; the others
\* run concurrently with them on healthy connections
FaultyProcs == {1}

\* the backend's error codes that abort a statement
FaultCodes == {"40001", "40P01", "57014"}

\* body amounts as sent: 1, 0, -1, "abc", "1abc"
BodyAmounts == {<<49>>, <<48>>, <<45, 49>>, <<97, 98, 99>>, <<49, 97, 98, 99>>}

\* requests with valid and invalid amounts, on known, unknown and inactive assets
CheckRequests(p) ==
  {RequestOf("topup", alice, goldCoins, t, KeyOf(p)) : t \in BodyAmounts}
    \cup {Request("spend", alice, goldCoins, 1, KeyOf(p)),
          Request("bonus", alice, diamonds, 1, KeyOf(p)),
          Request("topup", alice, unknownAsset, 1, KeyOf(p))}

Scope(p) ==
  \/ Begin(p)
  \/ LockNext(p)
  \/ FundsCheck(p)
  \/ InsertTx(p)
  \/ InsertDebit(p)
  \/ InsertCredit(p)
  \/ IdemStore(p)
  \/ Commit(p)
  \/ Rollback(p)

Next ==
  \/ \E p \in Procs, r \in IdemRequests : Invoke(p, r)
  \/ \E p \in Procs : IdemGet(p)
  \/ \E p \in Procs : AssetGet(p)
  \/ \E p \in Procs : Scope(p)
  \/ \E k \in idempotency_keys : Expire(k)

Spec == Init /\ [][Next]_vars

NextLedger ==
  \/ \E p \in Procs : \E r \in LedgerRequests(p) : Invoke(p, r)
  \/ \E p \in Procs : IdemGet(p)
  \/ \E p \in Procs : AssetGet(p)
  \/ \E p \in Procs : Scope(p)

SpecLedger == Init /\ [][NextLedger]_vars

NextLock ==
  \/ \E p \in Procs : \E r \in LockRequests(p) : Invoke(p, r)
  \/ \E p \in Procs : IdemGet(p)
  \/ \E p \in Procs : AssetGet(p)
  \/ \E p \in Procs : Scope(p)
  \/ \E p \in Procs : DeadlockDetected(p)

SpecLock == Init /\ [][NextLock]_vars

NextFault ==
  \/ \E p \in Procs : \E r \in FaultRequests(p) : Invoke(p, r)
  \/ \E p \in Procs : IdemGet(p)
  \/ \E p \in Procs : AssetGet(p)
  \/ \E p \in Procs : Scope(p)
  \/ \E p \in FaultyProcs, code \in FaultCodes : StatementFails(p, code)
  \/ ProcessExit

SpecFault == Init /\ [][NextFault]_vars

NextChecks ==
  \/ \E p \in Procs : \E r \in CheckRequests(p) : Invoke(p, r)
  \/ \E p \in Procs : IdemGet(p)
  \/ \E p \in Procs : AssetGet(p)
  \/ \E p \in Procs : Scope(p)
  \/ \E w \in {alice, treasury} : DeactivateWallet(w)
  \/ DeactivateAsset(diamonds)

SpecChecks == Init /\ [][NextChecks]_vars

\* requests of one key that end in a commit or in an APIError: a spend
\* (Unprocessable once the balance is spent), an amount of 0 (BadRequest), an
\* unknown asset (NotFound, or Conflict once the key is committed)
ErrorRequests ==
  {Request("spend", alice, goldCoins, 2, "k1"),
   RequestOf("topup", alice, goldCoins, <<48>>, "k1"),
   Request("topup", alice, unknownAsset, 1, "k1")}

\* the backend's error codes for a refused INSERT: the three constraint
\* violations that errorHandler tells apart, and one code it does not
InsertCodes == {"23505", "23503", "23514", "XX000"}

NextErrors ==
  \/ \E p \in Procs : \E r \in ErrorRequests : Invoke(p, r)
  \/ \E p \in Procs : IdemGet(p)
  \/ \E p \in Procs : AssetGet(p)
  \/ \E p \in Procs : Scope(p)
  \/ \E p \in FaultyProcs, code \in FaultCodes : StatementFails(p, code)
  \/ \E p \in FaultyProcs, code \in InsertCodes : InsertFails(p, code)
  \/ \E p \in FaultyProcs : RollbackFails(p)

SpecErrors == Init /\ [][NextErrors]_vars

\* topups handed to the service with the amounts 1, 0 and "abc", one with an
\* empty reference, and a spend
ServiceRequests(p) ==
  {RequestOf("topup", alice, goldCoins, t, KeyOf(p)) : t \in {<<49>>, <<48>>, <<97, 98, 99>>}}
    \cup {[Request("topup", alice, goldCoins, 1, KeyOf(p)) EXCEPT !.reference = ""],
          Request("spend", alice, goldCoins, 1, KeyOf(p))}

NextService ==
  \/ \E p \in Procs : \E r \in ServiceRequests(p) : InvokeService(p, r)
  \/ \E p \in Procs : IdemGet(p)
  \/ \E p \in Procs : AssetGet(p)
  \/ \E p \in Procs : Scope(p)
  \/ DeactivateWallet(treasury)

SpecService == Init /\ [][NextService]_vars

\* one key and one (assetTypeId, amount, reference), sent with and without
\* initiated_by and metadata, to another wallet and through another flow, and
\* a spend of more than alice holds
ReuseRequests ==
  {Request("topup", alice, goldCoins, 1, "k1"),
   RequestBy("topup", alice, goldCoins, 1, "k1", "admin", "campaign-7"),
   Request("topup", revenue, goldCoins, 1, "k1"),
   Request("spend", alice, goldCoins, 1, "k1"),
   Request("spend", alice, goldCoins, SeedGold + 1, "k1")}

NextReuse ==
  \/ \E p \in Procs : \E r \in ReuseRequests : Invoke(p, r)
  \/ \E p \in Procs : IdemGet(p)
  \/ \E p \in Procs : AssetGet(p)
  \/ \E p \in Procs : Scope(p)

SpecReuse == Init /\ [][NextReuse]_vars

\* one topup and one spend per caller, between the reads
ReadRequests(p) ==
  {Request(f, alice, goldCoins, a, KeyOf(p)) : f \in {"topup", "spend"}, a \in Amounts}

\* limit as sent: absent, "", "5", "0", "-1", "101", "abc"
LimitQueries ==
  {Absent, Query(<<>>), Query(<<53>>), Query(<<48>>), Query(<<45, 49>>),
   Query(<<49, 48, 49>>), Query(<<97, 98, 99>>)}

\* offset as sent: absent, "1", "-1", "abc"
OffsetQueries == {Absent, Query(<<49>>), Query(<<45, 49>>), Query(<<97, 98, 99>>)}

NextRead ==
  \/ \E p \in Procs : \E r \in ReadRequests(p) : Invoke(p, r)
  \/ \E p \in Procs : IdemGet(p)
  \/ \E p \in Procs : AssetGet(p)
  \/ \E p \in Procs : Scope(p)
  \/ ListWallets
  \/ \E w \in {alice, treasury, revenueAlt, unknownWallet} : GetBalance(w)
  \/ \E w \in {alice, unknownWallet}, l \in LimitQueries, o \in OffsetQueries :
       GetTransactions(w, l, o)

SpecRead == Init /\ [][NextRead]_vars

\* per handler a spend of alice's whole balance (the first commits, a repeat by
\* the same handler is answered from cache, another handler's is refused), and
\* a bonus for the first handler
PoolRequests(p) ==
  {Request("spend", alice, goldCoins, SeedGold, KeyOf(p))}
    \cup (IF p = 1 THEN {Request("bonus", alice, goldCoins, 1, "k0")} ELSE {})

\* the service started with DB_POOL_MAX set below the number of handlers
InitPool == InitState /\ pool = NewPool(NumProcs - 1)

NextPool ==
  \/ \E p \in Procs : \E r \in PoolRequests(p) : Invoke(p, r)
  \/ \E p \in Procs : IdemGet(p)
  \/ \E p \in Procs : AssetGet(p)
  \/ \E p \in Procs : Scope(p)

\* the event loop runs every continuation whose await has resolved, the
\* backend answers every statement that is not waiting for a row lock, and the
\* pool hands a released client to a waiting pool.connect() / pool.query()
FairPool == \A p \in Procs : WF_vars(IdemGet(p) \/ AssetGet(p) \/ Scope(p))

SpecPool == InitPool /\ [][NextPool]_vars /\ FairPool

\* a top-up and a spend of alice per handler, around the deactivation of a wallet
LockedRequests(p) ==
  {Request("topup", alice, goldCoins, 1, KeyOf(p)),
   Request("spend", alice, goldCoins, 1, KeyOf(p))}

NextDeactivate ==
  \/ \E p \in Procs : \E r \in LockedRequests(p) : Invoke(p, r)
  \/ \E p \in Procs : IdemGet(p)
  \/ \E p \in Procs : AssetGet(p)
  \/ \E p \in Procs : Scope(p)
  \/ \E w \in {alice, treasury} : DeactivateWallet(w)

SpecDeactivate == Init /\ [][NextDeactivate]_vars

TypeOK ==
  /\ pc \in [Procs -> {"idle", "idem_get", "asset_get", "begin", "lock", "funds", "ins_tx",
                       "ins_debit", "ins_credit", "idem_store", "commit", "rollback"}]
  /\ \A p \in Procs : attempt[p] \in 0..(MaxRetries - 1)

\* ------------------------------------------------------------------- claims
TxIds == {t.id : t \in transactions}

\* balance(W, A) over the committed ledger
Balance(walletId, assetTypeId) == BalanceIn(ledger_entries, walletId, assetTypeId)

\* the (assetTypeId, amount, reference) of a request and of a stored response
TupleOfReq(r)   == <<r.assetTypeId, r.amount, r.reference>>
TupleOfBody(b)  == <<b.asset_type_id, b.amount, b.reference>>

Ok(p) == result[p].status \in {200, 201}

\* handler p takes its optimistic idempotency read in this step
ReadsIdem(p) == pc[p] = "idem_get" /\ pc'[p] # "idem_get"

\* handler p commits its transactional scope in this step
Commits(p) == pc[p] = "commit" /\ pc'[p] # "commit"

\* C1: requests with one idempotency key and the same (assetTypeId, amount,
\* reference), sequential or concurrent, commit exactly one transaction: any
\* two of their responses carry the same transactionId, amount, fromWalletId
\* and toWalletId, and at most one of them is a fresh commit (the other is the
\* stored response, fromCache = true).  Stated while no record of the key has
\* expired.
C1_IdempotentRoundTrip ==
  \A p, q \in Procs :
    ( /\ p # q
      /\ Ok(p) /\ Ok(q)
      /\ result[p].req.idemKey = result[q].req.idemKey
      /\ TupleOfReq(result[p].req) = TupleOfReq(result[q].req)
      /\ ~\E k \in idempotency_keys : k.idem_key = result[p].req.idemKey /\ k.expired )
    => /\ result[p].data.transaction_id = result[q].data.transaction_id
       /\ result[p].data.amount = result[q].data.amount
       /\ result[p].data.from_wallet_id = result[q].data.from_wallet_id
       /\ result[p].data.to_wallet_id = result[q].data.to_wallet_id
       /\ (result[p].from_cache \/ result[q].from_cache)

\* C2: a request whose key has an unexpired record of the same (assetTypeId,
\* amount, reference) gets the stored response body with fromCache = true and
\* status 200, carrying the transactionId of the committed original, and its
\* idempotency read writes nothing.
C2_CacheHitIsPureRead ==
  [][\A p \in Procs :
       \A k \in idempotency_keys :
         ( /\ ReadsIdem(p)
           /\ k.idem_key = req[p].idemKey /\ ~k.expired
           /\ TupleOfBody(k.response_body) = TupleOfReq(req[p]) )
         => /\ pc'[p] = "idle"
            /\ result'[p].from_cache
            /\ result'[p].status = 200
            /\ result'[p].data = k.response_body
            /\ result'[p].data.transaction_id = k.transaction_id
            /\ k.transaction_id \in TxIds
            /\ UNCHANGED <<transactions, ledger_entries, idempotency_keys, pending>>]_vars

C2_Witness ==
  \E p \in Procs : /\ result[p].from_cache
                   /\ result[p].status = 200
                   /\ result[p].data.transaction_id \in TxIds \ {aliceGold}

\* C3: a request whose key has an unexpired record of a different (assetTypeId,
\* amount, reference) fails with Conflict (409) and writes no header, ledger
\* entry or idempotency record.
C3_ConflictingReuseRejected ==
  [][\A p \in Procs :
       \A k \in idempotency_keys :
         ( /\ ReadsIdem(p)
           /\ k.idem_key = req[p].idemKey /\ ~k.expired
           /\ TupleOfBody(k.response_body) # TupleOfReq(req[p]) )
         => /\ pc'[p] = "idle"
            /\ result'[p].error = "Conflict"
            /\ result'[p].status = 409
            /\ UNCHANGED <<transactions, ledger_entries, idempotency_keys, pending>>]_vars

C3_Witness ==
  \E p \in Procs :
    /\ result[p].error = "Conflict"
    /\ \E k \in idempotency_keys :
         /\ k.idem_key = result[p].req.idemKey
         /\ TupleOfBody(k.response_body) # TupleOfReq(result[p].req)
         /\ Cardinality(transactions) = 2

\* C4: no request commits a transfer (201) under a key whose unexpired record
\* belongs to a request with a different hash: the racer that finds such a
\* record is rolled back and answered Conflict.
C4_ConcurrentConflictRolledBack ==
  \A p \in Procs :
    result[p].status = 201 =>
      \A k \in idempotency_keys :
        (k.idem_key = result[p].req.idemKey /\ ~k.expired)
          => k.request_hash = RequestHash(result[p].req)

\* C5: when a transfer commits, its key is committed: an unexpired record of
\* the key exists from then on (in particular for a key whose earlier record
\* had expired).
C5_ExpiredKeyCommitsAgain ==
  [][\A p \in Procs :
       Commits(p) =>
         \E k \in idempotency_keys' : k.idem_key = req[p].idemKey /\ ~k.expired]_vars

RECURSIVE SumBalances(_, _)
SumBalances(ws, a) ==
  IF ws = {} THEN 0
  ELSE LET w == CHOOSE x \in ws : TRUE
       IN  Balance(w, a) + SumBalances(ws \ {w}, a)

\* C6: conservation: for every asset the balances of all wallets sum to zero.
C6_Conservation ==
  \A a \in DOMAIN asset_types : SumBalances(DOMAIN wallets, a) = 0

C6_Witness ==
  /\ \E t \in transactions : t.transaction_type = "spend"
  /\ \E t \in transactions : t.transaction_type = "bonus"
  /\ Balance(alice, diamonds) # 0

EntriesOf(t) == {e \in ledger_entries : e.transaction_id = t.id}

\* C7: pairing: every committed transaction has exactly two entries, one debit
\* and one credit, of equal asset and amount, on distinct wallets.
C7_Pairing ==
  \A t \in transactions :
    /\ Cardinality(EntriesOf(t)) = 2
    /\ \E d, c \in EntriesOf(t) :
         /\ d.direction = "debit" /\ c.direction = "credit"
         /\ d.asset_type_id = c.asset_type_id
         /\ d.amount = c.amount
         /\ d.wallet_id # c.wallet_id

UuidLess(a, b) ==
  LET x == UuidOf[a]
      y == UuidOf[b]
  IN  \E i \in 1..Len(y) :
        /\ \A j \in 1..(i-1) : x[j] = y[j]
        /\ x[i] < y[i]

\* C9: deadlock freedom: no reachable state has a cycle of transfers each
\* waiting for a row lock or unique-key insert held by the next.
C9_NoWaitCycle == \A p \in Procs : ~InWaitCycle(p)

\* C10: canonical lock ordering: the rows a transfer has locked were acquired
\* in strictly ascending id order (no duplicates, never a lower id after a
\* higher one).
C10_CanonicalLockOrder ==
  \A p \in Procs :
    \A i, j \in 1..Len(locked[p]) :
      i < j => UuidLess(locked[p][i].id, locked[p][j].id)

\* handler p's COMMIT takes effect in this step
CommitsTx(p) ==
  /\ pc[p] = "commit"
  /\ pending[p].tx # {}
  /\ transactions' # transactions
  /\ pending[p].tx \subseteq transactions'


\* C11: atomicity: in every committed state, whatever statement of a scope
\* failed and wherever the process exited, every header has exactly its debit
\* and its credit entry, every entry and every idempotency record belongs to a
\* committed header, and the committed tables change only by a COMMIT that
\* adds the header, both entries and the result of the idempotency insert of
\* one scope together.
C11_Atomicity ==
  /\ [](/\ \A t \in transactions :
             /\ Cardinality(EntriesOf(t)) = 2
             /\ \E d, c \in EntriesOf(t) : d.direction = "debit" /\ c.direction = "credit"
        /\ \A e \in ledger_entries : e.transaction_id \in TxIds
        /\ \A k \in idempotency_keys : k.transaction_id \in TxIds)
  /\ [][dbVars' # dbVars =>
          \E p \in Procs :
            /\ CommitsTx(p)
            /\ Cardinality(pending[p].tx) = 1
            /\ Cardinality(pending[p].entries) = 2
            /\ transactions' = transactions \cup pending[p].tx
            /\ ledger_entries' = ledger_entries \cup pending[p].entries
            /\ idempotency_keys' = idempotency_keys \cup pending[p].idem
            /\ UNCHANGED <<wallets, asset_types>>]_vars

\* a scope aborted between its debit and its credit, after another has committed
C11_Witness ==
  \E p \in Procs :
    /\ pc[p] = "rollback"
    /\ err[p] = "57014"
    /\ Cardinality(pending[p].entries) = 1
    /\ Cardinality(transactions) >= 2

\* C13: immutability: no step of the service (transfers, cache hits, failed
\* and retried attempts, process exit) removes or changes a committed ledger
\* entry; the set of committed entries only grows.
C13_Immutability ==
  [][/\ ledger_entries \subseteq ledger_entries'
     /\ Cardinality(ledger_entries') >= Cardinality(ledger_entries)]_vars

\* a committed transfer next to a failed one
C13_Witness ==
  /\ Cardinality(ledger_entries) >= 4
  /\ \E p \in Procs : result[p].error \in FaultCodes

\* handler p leaves the catch block of withTransaction in this step, to run
\* the scope again or to return the error to its caller
LeavesCatch(p) ==
  /\ pc[p] = "rollback"
  /\ \/ pc'[p] = "begin"
     \/ pc'[p] = "idle" /\ result'[p] # result[p]

\* C14: retry policy: a scope runs at most MaxRetries (3) times per transfer;
\* an attempt failing with 40001 or 40P01 is rolled back and re-run while
\* fewer than 3 attempts have been made, the third such failure is surfaced;
\* any other failure is rolled back and surfaced, never retried.
C14_RetryPolicy ==
  /\ [](\A p \in Procs : attempt[p] \in 0..2)
  /\ [][\A p \in Procs :
          LeavesCatch(p)
            => /\ UNCHANGED dbVars
               /\ IF err[p] \in {"40001", "40P01"} /\ attempt[p] < 2
                    THEN /\ pc'[p] = "begin"
                         /\ attempt'[p] = attempt[p] + 1
                         /\ pending'[p] = NoPending
                         /\ locked'[p] = <<>>
                         /\ result'[p] = result[p]
                    ELSE /\ pc'[p] = "idle"
                         /\ result'[p].error = err[p]
                         /\ result'[p].status = errorHandler(err[p])]_vars

\* the third attempt of a transfer has failed with a transient error
C14_Witness ==
  \E p \in Procs :
    /\ pc[p] = "rollback"
    /\ attempt[p] = 2
    /\ err[p] \in {"40001", "40P01"}

\* C12: idempotency uniqueness: in every reachable state, whatever the
\* interleaving of concurrent writers, no two unexpired idempotency records
\* share a key.
C12_IdempotencyUniqueness ==
  \A k1, k2 \in idempotency_keys :
    (k1.idem_key = k2.idem_key /\ ~k1.expired /\ ~k2.expired) => k1 = k2

\* two writers of one key have both committed a transfer and one record exists
C12_Witness ==
  \E p, q \in Procs :
    /\ p # q
    /\ result[p].status = 201 /\ result[q].status = 201
    /\ result[p].req.idemKey = result[q].req.idemKey
    /\ result[p].data.transaction_id # result[q].data.transaction_id
    /\ Cardinality({k \in idempotency_keys : k.idem_key = result[p].req.idemKey /\ ~k.expired}) = 1

\* the wallet row that carries a flow's ownerRef
SystemWallet(flow) == CHOOSE w \in DOMAIN wallets : wallets[w].owner_ref = SYSTEM_REFS[flow]

\* C15: flow mapping: a committed topup debits system:treasury and credits the
\* caller's wallet, a committed bonus debits system:bonus_pool and credits the
\* caller's wallet, a committed spend debits the caller's wallet and credits
\* system:revenue; both entries carry the requested asset and amount, and the
\* caller's balance changes by exactly +amount (topup, bonus) or -amount (spend).
C15_FlowMapping ==
  [][\A p \in Procs :
       CommitsTx(p) =>
         LET r      == req[p]
             caller == RowOf(r.walletId)
             source == IF r.flow = "spend" THEN caller ELSE SystemWallet(r.flow)
             dest   == IF r.flow = "spend" THEN SystemWallet(r.flow) ELSE caller
             change == IF r.flow = "spend" THEN 0 - r.amount ELSE r.amount
         IN  /\ ledger_entries' \ ledger_entries =
                  {[transaction_id |-> txId[p], wallet_id |-> source,
                    asset_type_id |-> r.assetTypeId, direction |-> "debit", amount |-> r.amount],
                   [transaction_id |-> txId[p], wallet_id |-> dest,
                    asset_type_id |-> r.assetTypeId, direction |-> "credit", amount |-> r.amount]}
             /\ BalanceIn(ledger_entries', caller, r.assetTypeId)
                  = Balance(caller, r.assetTypeId) + change]_vars

\* C16: spend boundary: the funds check of a spend passes if and only if
\* amount <= balance(source, asset) as read under the lock; a spend that passes
\* commits and leaves balance(source, asset) lower by amount (0 for a spend of
\* exactly the balance); one that does not pass fails with Unprocessable (422)
\* and writes no header, entry or idempotency record.
C16_SpendBoundary ==
  /\ [][\A p \in Procs :
          (pc[p] = "funds" /\ pc'[p] # "funds") =>
            IF req[p].amount <= Balance(ft[p].fromWalletId, req[p].assetTypeId)
              THEN pc'[p] = "ins_tx"
              ELSE /\ pc'[p] = "rollback"
                   /\ err'[p] = "Unprocessable"
                   /\ pending'[p] = NoPending
                   /\ UNCHANGED dbVars]_vars
  /\ [][\A p \in Procs :
          (LeavesCatch(p) /\ err[p] = "Unprocessable") =>
            /\ pc'[p] = "idle"
            /\ result'[p].status = 422
            /\ UNCHANGED dbVars]_vars
  /\ [][\A p \in Procs :
          (CommitsTx(p) /\ req[p].flow = "spend") =>
            /\ result'[p].status = 201
            /\ BalanceIn(ledger_entries', ft[p].fromWalletId, req[p].assetTypeId)
                 = Balance(ft[p].fromWalletId, req[p].assetTypeId) - req[p].amount
            /\ (req[p].amount = Balance(ft[p].fromWalletId, req[p].assetTypeId)
                  => BalanceIn(ledger_entries', ft[p].fromWalletId, req[p].assetTypeId) = 0)]_vars

\* C17: no funds check for topup and bonus: their scopes go from the active
\* checks straight to the header insert, never read a balance and never fail
\* with Unprocessable, whatever the balance of the source system wallet, which
\* may be and stay negative.
C17_NoFundsCheckForInflows ==
  /\ [](\A p \in Procs :
          /\ pc[p] = "funds" => req[p].flow = "spend"
          /\ (pc[p] = "rollback" /\ err[p] = "Unprocessable") => req[p].flow = "spend"
          /\ result[p].error = "Unprocessable" => result[p].req.flow = "spend")
  /\ [][\A p \in Procs :
          ( /\ pc[p] = "lock" /\ pc'[p] \notin {"lock", "rollback"}
            /\ req[p].flow \in {"topup", "bonus"} )
          => pc'[p] = "ins_tx"]_vars
  /\ [][\A p \in Procs :
          (CommitsTx(p) /\ req[p].flow \in {"topup", "bonus"})
            => /\ result'[p].status = 201
               /\ (ft[p].fromWalletId # ft[p].toWalletId
                     => BalanceIn(ledger_entries', ft[p].fromWalletId, req[p].assetTypeId)
                          = Balance(ft[p].fromWalletId, req[p].assetTypeId) - req[p].amount)]_vars

\* a bonus and a topup have committed from system wallets whose balance was
\* not positive, and both balances are negative
C17_Witness ==
  /\ \E p \in Procs : result[p].status = 201 /\ result[p].req.flow = "bonus"
                        /\ Balance(bonusPool, result[p].req.assetTypeId) < 0
  /\ \E p \in Procs : result[p].status = 201 /\ result[p].req.flow = "topup"
                        /\ Balance(treasury, goldCoins) < 0 - SeedGold

\* the text is a decimal numeral: an optional sign, then digits and nothing else
IsNumeral(s) ==
  LET rest == IF s # <<>> /\ Head(s) \in {43, 45} THEN Tail(s) ELSE s
  IN  rest # <<>> /\ \A i \in 1..Len(rest) : rest[i] \in 48..57

\* the number a numeral denotes
NumeralValue(s) ==
  LET rest == IF s # <<>> /\ Head(s) \in {43, 45} THEN Tail(s) ELSE s
  IN  IF s # <<>> /\ Head(s) = 45 THEN 0 - DigitsValue(rest) ELSE DigitsValue(rest)

\* an amount that is 0, negative or non-numeric
InvalidAmount(s) == ~IsNumeral(s) \/ NumeralValue(s) <= 0

\* C18: a request whose amount is 0, negative or non-numeric is answered
\* BadRequest (400) and never gets past validation: no handler works on such a
\* request, and the step that answers it writes no header, ledger entry or
\* idempotency record.
C18_InvalidAmountRejected ==
  /\ [](\A p \in Procs : req[p] # NoReq => ~InvalidAmount(req[p].body_amount))
  /\ [][\A p \in Procs :
          (result'[p] # result[p] /\ InvalidAmount(result'[p].req.body_amount))
            => /\ result'[p].error = "BadRequest"
               /\ result'[p].status = 400
               /\ UNCHANGED <<dbVars, pending>>]_vars

\* C19: a transfer with a valid amount, a fresh key and an active asset in
\* which the caller's wallet or the flow's system wallet is inactive is
\* answered BadRequest (400) and writes nothing.
C19_InactiveWalletRejected ==
  [][\A p \in Procs :
       LET r == result'[p].req
       IN  ( /\ result'[p] # result[p]
             /\ r # NoReq
             /\ validateTransferBody(r).error = None
             /\ ~\E k \in idempotency_keys : k.idem_key = r.idemKey
             /\ r.assetTypeId \in DOMAIN asset_types
             /\ asset_types[r.assetTypeId].is_active
             /\ RowOf(r.walletId) # None
             /\ \/ ~wallets[RowOf(r.walletId)].is_active
                \/ ~wallets[SystemWallet(r.flow)].is_active )
           => /\ result'[p].error = "BadRequest"
              /\ result'[p].status = 400
              /\ UNCHANGED dbVars]_vars

\* handler p is answered `kind` without a scope having been opened
RejectedBeforeScope(p, kind) ==
  /\ pc'[p] = "idle"
  /\ result'[p].error = kind
  /\ result'[p].status = errorHandler(kind)
  /\ result'[p].req = req[p]
  /\ attempt[p] = 0
  /\ locked[p] = <<>> /\ locked'[p] = <<>>
  /\ pending[p] = NoPending /\ pending'[p] = NoPending
  /\ UNCHANGED dbVars

\* C20: a transfer with a fresh key that reaches asset resolution fails with
\* NotFound when its assetTypeId resolves to no row and with BadRequest when the
\* asset is inactive; in both cases no scope is opened, no wallet lock is taken
\* and nothing is written.  No handler holds a lock or a pending write before
\* it has passed the asset checks.
C20_AssetResolution ==
  /\ [](\A p \in Procs :
          pc[p] \in {"idle", "idem_get", "asset_get"}
            => locked[p] = <<>> /\ pending[p] = NoPending)
  /\ [][\A p \in Procs :
          (pc[p] = "asset_get" /\ pc'[p] # "asset_get") =>
            IF req[p].assetTypeId \notin DOMAIN asset_types
              THEN RejectedBeforeScope(p, "NotFound")
            ELSE IF ~asset_types[req[p].assetTypeId].is_active
              THEN RejectedBeforeScope(p, "BadRequest")
            ELSE pc'[p] = "begin"]_vars

\* one transfer was refused for an unknown asset and one for an inactive asset
\* while every wallet is active
C20_Witness ==
  /\ \A w \in DOMAIN wallets : wallets[w].is_active
  /\ ~asset_types[diamonds].is_active
  /\ \E p \in Procs : /\ result[p].error = "NotFound"
                        /\ result[p].req.assetTypeId = unknownAsset
  /\ \E p \in Procs : /\ result[p].error = "BadRequest"
                        /\ result[p].req.assetTypeId = diamonds
                        /\ result[p].req.amount > 0

\* C21: listWallets returns all wallets, every system wallet before every user
\* wallet, and within each ownerType in ascending order of label.
C21_ListOrder ==
  view.op = "listWallets" =>
    LET ws == view.wallets
    IN  /\ {ws[i] : i \in 1..Len(ws)} = DOMAIN wallets
        /\ Len(ws) = Cardinality(DOMAIN wallets)
        /\ \A i, j \in 1..Len(ws) :
             i < j =>
               /\ ~(wallets[ws[i]].owner_type = "user" /\ wallets[ws[j]].owner_type = "system")
               /\ (wallets[ws[i]].owner_type = wallets[ws[j]].owner_type
                     => TextLess(wallets[ws[i]].label, wallets[ws[j]].label))

\* C22: whatever the limit and offset query parameters of the history read
\* (absent, numeric, zero, negative, above 100, non-numeric), the limit handed to
\* the read model is an integer in [1,100], 20 when absent, and the offset is an
\* integer >= 0, 0 when absent.
C22_PageClamp ==
  view.op = "getTransactions" =>
    /\ ~view.limit.nan /\ view.limit.value \in 1..100
    /\ ~view.offset.nan /\ view.offset.value >= 0
    /\ (~view.query[1].present => view.limit.value = 20)
    /\ (~view.query[2].present => view.offset.value = 0)

\* the amounts of a wallet's entries of one direction in an asset, summed
RECURSIVE SumAmounts(_)
SumAmounts(es) ==
  IF es = {} THEN 0
  ELSE LET e == CHOOSE x \in es : TRUE IN e.amount + SumAmounts(es \ {e})

Credits(entries, walletId, assetTypeId) ==
  SumAmounts({e \in entries : /\ UuidOf[e.wallet_id] = UuidOf[walletId]
                              /\ e.asset_type_id = assetTypeId /\ e.direction = "credit"})

Debits(entries, walletId, assetTypeId) ==
  SumAmounts({e \in entries : /\ UuidOf[e.wallet_id] = UuidOf[walletId]
                              /\ e.asset_type_id = assetTypeId /\ e.direction = "debit"})

\* the read endpoint answers in this step
Answers(op) == view' # view /\ view'.op = op

C23_ErrorMapping ==
  \A p \in Procs :
    LET r == result[p]
        e == r.error
    IN  e # None =>
          CASE e = "BadRequest"    -> r.status = 400 /\ r.body.error = ErrorMessage(e)
            [] e = "NotFound"      -> r.status = 404 /\ r.body.error = ErrorMessage(e)
            [] e = "Conflict"      -> r.status = 409 /\ r.body.error = ErrorMessage(e)
            [] e = "Unprocessable" -> r.status = 422 /\ r.body.error = ErrorMessage(e)
            [] e = "23505"         -> r.status = 409
            [] e \in {"23503", "23514"} -> r.status = 422
            [] e \in {"40001", "40P01", "57014"} -> r.status = 503
            [] OTHER -> /\ r.status = 500
                        /\ r.body = [error |-> "Internal server error", detail |-> None]
                        /\ ErrorMessage(e) \notin {r.body.error, r.body.detail}

\* one caller was answered 500 for a backend error outside the table while
\* another was refused with an API error
C23_Witness ==
  /\ \E p \in Procs : result[p].error = "XX000" /\ result[p].status = 500
  /\ \E p \in Procs : IsAPIError(result[p].error)

\* C29: a transactional scope that fails with a non-transient error (BadRequest,
\* NotFound, Unprocessable, a storage constraint violation, a timeout) is rolled
\* back and released, and the caller receives that same error, on every path,
\* the one where the rollback statement itself fails included.
C29_NonTransientPropagation ==
  [][\A p \in Procs :
       (pc[p] = "rollback" /\ pc'[p] = "idle" /\ err[p] \notin {"40001", "40P01"}) =>
         /\ result'[p].error = err[p]
         /\ result'[p].status = errorHandler(err[p])
         /\ pending'[p] = NoPending /\ locked'[p] = <<>>
         /\ UNCHANGED dbVars]_vars

\* C24: metadata and initiatedBy are outside the idempotency signature: a
\* request whose key has an unexpired record of the same (assetTypeId, amount,
\* reference) is a duplicate whatever its metadata and initiatedBy: it gets the
\* recorded response and commits nothing; a committed header carries the
\* metadata and initiatedBy of the request that committed it and is never
\* changed afterwards.
C24_MetadataOutsideSignature ==
  /\ [][\A p \in Procs :
          \A k \in idempotency_keys :
            ( /\ ReadsIdem(p)
              /\ k.idem_key = req[p].idemKey /\ ~k.expired
              /\ TupleOfBody(k.response_body) = TupleOfReq(req[p]) )
            => /\ result'[p].from_cache
               /\ result'[p].error = None
               /\ result'[p].data = k.response_body
               /\ UNCHANGED dbVars
               /\ pending' = pending]_vars
  /\ [][\A p \in Procs :
          CommitsTx(p) =>
            \A t \in transactions' \ transactions :
              t.metadata = req[p].metadata /\ t.initiated_by = req[p].initiatedBy]_vars
  /\ [][transactions \subseteq transactions']_vars

\* a request with metadata and initiatedBy of its own was answered from the
\* record of a transaction committed without metadata by 'system'
C24_Witness ==
  \E p \in Procs :
    /\ result[p].from_cache
    /\ result[p].req.metadata = "campaign-7" /\ result[p].req.initiatedBy = "admin"
    /\ \E t \in transactions : /\ t.id = result[p].data.transaction_id
                               /\ t.metadata = None /\ t.initiated_by = "system"

\* C30: the idempotency comparison ignores walletId, flow and endpoint tag: a
\* request whose key has an unexpired committed record of the same
\* (assetTypeId, amount, reference), stored for another caller wallet or another
\* flow, gets the stored response with fromCache = true, is not rejected with
\* Conflict and moves no balance.
C30_EndpointOutsideSignature ==
  [][\A p \in Procs :
       \A k \in idempotency_keys :
         ( /\ ReadsIdem(p)
           /\ k.idem_key = req[p].idemKey /\ ~k.expired
           /\ TupleOfBody(k.response_body) = TupleOfReq(req[p])
           /\ k.endpoint # <<req[p].flow, req[p].walletId>> )
         => /\ pc'[p] = "idle"
            /\ result'[p].from_cache /\ result'[p].status = 200
            /\ result'[p].error # "Conflict"
            /\ result'[p].data = k.response_body
            /\ \A w \in DOMAIN wallets, a \in DOMAIN asset_types :
                 BalanceIn(ledger_entries', w, a) = BalanceIn(ledger_entries, w, a)
            /\ pending' = pending]_vars

\* a spend on alice's wallet was answered with the stored response of her
\* topup, and her balance is the seed plus the topup
C30_Witness ==
  \E p \in Procs : /\ result[p].from_cache
                   /\ result[p].req.flow = "spend" /\ result[p].req.walletId = alice
                   /\ result[p].data.transaction_type = "topup"
                   /\ Balance(alice, goldCoins) = SeedGold + result[p].data.amount

\* handler p answers its caller in this step
Answers1(p) == result'[p] # result[p]

\* C26: the idempotency read precedes every asset and wallet resolution: a
\* request with a valid amount whose key has, when it arrives or when it takes
\* its idempotency read, an unexpired committed record is answered with the
\* stored response when the (assetTypeId, amount, reference) is the same and
\* with Conflict when it differs, whether or not the asset, the caller's wallet
\* or the flow's system wallet is missing or inactive.
C26_IdempotencyReadFirst ==
  [][\A p \in Procs :
       \A k \in idempotency_keys :
         ( /\ pc[p] \in {"idle", "idem_get"}
           /\ Answers1(p)
           /\ ~InvalidAmount(result'[p].req.body_amount)
           /\ k.idem_key = result'[p].req.idemKey /\ ~k.expired )
         => IF TupleOfBody(k.response_body)
                 = <<result'[p].req.assetTypeId,
                     NumeralValue(result'[p].req.body_amount),
                     result'[p].req.reference>>
              THEN result'[p].from_cache /\ result'[p].data = k.response_body
              ELSE result'[p].error = "Conflict"]_vars

\* C27: input validation precedes every storage call: a topup, bonus or spend
\* invoked on the service with an amount that is 0, negative or non-numeric, or
\* with an empty reference, is answered BadRequest in the step that receives
\* it, and no handler goes on to a lookup with such a request.
C27_ValidationFirst ==
  /\ [](\A p \in Procs :
          req[p] # NoReq => ~InvalidAmount(req[p].body_amount) /\ req[p].reference # "")
  /\ [][\A p \in Procs :
          ( /\ pc[p] = "idle" /\ Answers1(p)
            /\ (InvalidAmount(result'[p].req.body_amount) \/ result'[p].req.reference = "") )
          => result'[p].error = "BadRequest"]_vars

\* the scope of p holds the row lock of both wallets of its transfer and has
\* passed the active checks
LocksHeld(p) ==
  /\ toLock[p] = <<>>
  /\ {RowOf(ft[p].fromWalletId), RowOf(ft[p].toWalletId)} \subseteq LockedRows(p)
  /\ ActiveCheck(locked[p], ft[p].fromWalletId, ft[p].toWalletId) = None

\* the step that p's scope takes from its current position is the next one of
\* the callback, or leaves the scope through catch or with the process
NextStep(p) ==
  LET out == {"rollback", "idle"}
  IN  CASE pc[p] = "begin"      -> pc'[p] \in {"lock"} \cup out
        [] pc[p] = "lock"       ->
             /\ pc'[p] \in {"funds", "ins_tx"} \cup out
             /\ (pc'[p] \in {"funds", "ins_tx"} =>
                   /\ LocksHeld(p)'
                   /\ (pc'[p] = "funds" <=> req[p].flow = "spend"))
        [] pc[p] = "funds"      -> pc'[p] \in {"ins_tx"} \cup out
        [] pc[p] = "ins_tx"     ->
             /\ pc'[p] \in {"ins_debit"} \cup out
             /\ (pc'[p] = "ins_debit" => pending'[p].tx # {} /\ pending'[p].entries = {})
        [] pc[p] = "ins_debit"  ->
             /\ pc'[p] \in {"ins_credit"} \cup out
             /\ (pc'[p] = "ins_credit" =>
                   /\ Cardinality(pending'[p].entries) = 1
                   /\ \A e \in pending'[p].entries :
                        e.direction = "debit" /\ e.wallet_id = RowOf(ft[p].fromWalletId))
        [] pc[p] = "ins_credit" ->
             /\ pc'[p] \in {"idem_store"} \cup out
             /\ (pc'[p] = "idem_store" =>
                   /\ pending[p].entries \subseteq pending'[p].entries
                   /\ \A e \in pending'[p].entries \ pending[p].entries :
                        e.direction = "credit" /\ e.wallet_id = RowOf(ft[p].toWalletId)
                   /\ Cardinality(pending'[p].entries) = 2
                   /\ pending'[p].idem = {})
        [] pc[p] = "idem_store" -> pc'[p] \in {"commit"} \cup out
        [] pc[p] = "commit"     -> pc'[p] \in out
        [] OTHER                -> TRUE

\* C28: in every attempt of the transactional scope the steps come in this
\* order: all wallet locks, the active checks, for a spend the funds check, the
\* header insert, the debit entry on the source wallet, the credit entry on the
\* destination wallet, the idempotency record insert, commit; no header or
\* entry is written before all locks are held, and the 201 response is returned
\* only by the step that commits.
C28_StepOrder ==
  /\ [](\A p \in Procs :
          /\ (pending[p] # NoPending => LocksHeld(p))
          /\ (pending[p].entries # {} => pending[p].tx # {})
          /\ (pending[p].idem # {} => Cardinality(pending[p].entries) = 2))
  /\ [][\A p \in Procs : pc'[p] # pc[p] => NextStep(p)]_vars
  /\ [][\A p \in Procs :
          (result'[p] # result[p] /\ result'[p].status = 201) =>
            /\ pc[p] = "commit"
            /\ pending[p].tx \subseteq transactions'
            /\ pending[p].entries \subseteq ledger_entries']_vars

\* a spend, on a later attempt of its scope, has taken both locks and written
\* its header, both entries and its idempotency record, and awaits COMMIT
C28_Witness ==
  \E p \in Procs :
    /\ pc[p] = "commit" /\ req[p].flow = "spend" /\ attempt[p] > 0
    /\ LocksHeld(p)
    /\ pending[p].tx # {} /\ Cardinality(pending[p].entries) = 2 /\ pending[p].idem # {}

\* the wallets owned by users
UserWallets == {w \in DOMAIN wallets : wallets[w].owner_type = "user"}

Fails(p) == Answers1(p) /\ result'[p].error \notin {None, "Conflict"}

\* C32: a failed transfer does not consume its idempotency key: the step that
\* answers a request with an error (BadRequest, NotFound, Unprocessable, a
\* storage error, exhausted transient retries) leaves the idempotency table as
\* it was and drops the scope's pending record; a record appears only in the
\* step that commits a transfer answered 201, under that transfer's key; hence
\* a key none of whose requests has committed has no record, and a later
\* request with it finds none at its idempotency read and goes on as a fresh
\* request.
C32_FailureKeepsKeyFree ==
  /\ [][\A p \in Procs :
          Fails(p) => /\ idempotency_keys' = idempotency_keys
                      /\ pending'[p] = NoPending]_vars
  /\ [][\A k \in idempotency_keys' \ idempotency_keys :
          \E p \in Procs : /\ Commits(p)
                           /\ k.idem_key = req[p].idemKey
                           /\ result'[p].status = 201
                           /\ result'[p].data.transaction_id = k.transaction_id]_vars
  /\ [][\A p \in Procs :
          (ReadsIdem(p) /\ ~\E k \in idempotency_keys : k.idem_key = req[p].idemKey)
            => pc'[p] = "asset_get" /\ result'[p] = result[p]]_vars

\* a spend failed on a refused INSERT, and a request with the same key was
\* committed as a fresh transfer whose record is the only one of the key
C32_Witness ==
  \E p, q \in Procs :
    /\ result[p].error = "23514" /\ result[p].req.idemKey = "k1"
    /\ result[q].status = 201 /\ ~result[q].from_cache /\ result[q].req.idemKey = "k1"
    /\ \A k \in idempotency_keys :
         k.idem_key = "k1" /\ k.transaction_id = result[q].data.transaction_id
    /\ Cardinality(transactions) = 2

\* C33: first writer wins: a committed idempotency record stays in the table
\* with the requestHash, responseBody, transactionId and expiry it was stored
\* with (time only turns it from unexpired to expired) and remains the only
\* record of its key, whatever later requests use the key: cache hits,
\* conflicting reuse, concurrent racers, requests after expiry.
C33_FirstWriterWins ==
  /\ [][\A k \in idempotency_keys :
          \E k2 \in idempotency_keys' :
            /\ k2.idem_key = k.idem_key
            /\ k2.request_hash = k.request_hash
            /\ k2.response_body = k.response_body
            /\ k2.transaction_id = k.transaction_id
            /\ k2.endpoint = k.endpoint
            /\ (k.expired => k2.expired)
            /\ \A k3 \in idempotency_keys' : k3.idem_key = k.idem_key => k3 = k2]_vars
  /\ [][\A p \in Procs :
          (Commits(p) /\ \E k \in idempotency_keys : k.idem_key = req[p].idemKey)
            => idempotency_keys' = idempotency_keys]_vars

\* two transfers with key k1 were committed, one of them after the record
\* expired, and the record is still the first one's
C33_Witness ==
  /\ Cardinality(transactions) = 3
  /\ \E k \in idempotency_keys : k.expired
  /\ \E p \in Procs :
       /\ result[p].status = 201
       /\ \E k \in idempotency_keys :
            /\ k.idem_key = result[p].req.idemKey
            /\ k.transaction_id # result[p].data.transaction_id
            /\ k.request_hash # RequestHash(result[p].req)

\* C34: every idempotency record's transactionId identifies a committed
\* transaction whose debit and credit entries match the record's responseBody
\* (same asset, same amount, debit on from_wallet_id, credit on to_wallet_id);
\* and every transaction committed by the transfer engine is the transaction
\* referenced by the record stored under the key of the request that created
\* it.
C34_RecordMatchesTransaction ==
  /\ [](\A k \in idempotency_keys :
          \E t \in transactions :
            /\ t.id = k.transaction_id
            /\ k.response_body.transaction_id = t.id
            /\ \E d, c \in EntriesOf(t) :
                 /\ d.direction = "debit" /\ c.direction = "credit"
                 /\ d.wallet_id = RowOf(k.response_body.from_wallet_id)
                 /\ c.wallet_id = RowOf(k.response_body.to_wallet_id)
                 /\ d.asset_type_id = k.response_body.asset_type_id
                 /\ c.asset_type_id = k.response_body.asset_type_id
                 /\ d.amount = k.response_body.amount
                 /\ c.amount = k.response_body.amount)
  /\ [][\A p \in Procs :
          CommitsTx(p) =>
            \E k \in idempotency_keys' :
              /\ k.idem_key = req[p].idemKey
              /\ k.transaction_id = txId[p]]_vars

\* C35: no transfer commits ledger entries for an asset that is inactive at
\* the moment of commit, whatever the interleaving with a deactivation of the
\* asset.
C35_NoCommitOnInactiveAsset ==
  [][\A p \in Procs :
       CommitsTx(p) =>
         \A e \in pending[p].entries : asset_types[e.asset_type_id].is_active]_vars

\* C36: no transfer commits with a source or destination wallet that is
\* inactive at the moment of commit: the flags are read from the locked rows,
\* the locks are held until the scope ends, and a deactivation of a wallet
\* either precedes the lock (the transfer is rejected) or waits for the
\* scope's end.
C36_NoCommitOnInactiveWallet ==
  /\ [][\A p \in Procs :
          CommitsTx(p) =>
            /\ wallets[RowOf(ft[p].fromWalletId)].is_active
            /\ wallets[RowOf(ft[p].toWalletId)].is_active
            /\ \A e \in pending[p].entries : wallets[e.wallet_id].is_active]_vars
  /\ [][\A w \in DOMAIN wallets :
          (wallets[w].is_active /\ ~wallets'[w].is_active)
            => \A p \in Procs : w \notin LockedRows(p)]_vars
  /\ [](\A p \in Procs :
          (pc[p] \in {"funds", "ins_tx", "ins_debit", "ins_credit", "idem_store", "commit"})
            => /\ {RowOf(ft[p].fromWalletId), RowOf(ft[p].toWalletId)} \subseteq LockedRows(p)
               /\ \A w \in LockedRows(p) : wallets[w].is_active)

\* one top-up of alice was committed, alice was deactivated afterwards, and
\* another top-up of alice was rejected by the active check
C36_Witness ==
  /\ ~wallets[alice].is_active
  /\ \E p \in Procs :
       /\ result[p].status = 201 /\ ~result[p].from_cache
       /\ result[p].data.to_wallet_id = alice
       /\ \E e \in ledger_entries :
            e.wallet_id = alice /\ e.transaction_id = result[p].data.transaction_id
  /\ \E p \in Procs :
       /\ result[p].error = "BadRequest"
       /\ result[p].req.flow = "topup"
       /\ result[p].req.amount = 1

\* the scope of p ends its attempt in this step: ROLLBACK and retry or rethrow
RollsBack(p) == pc[p] = "rollback" /\ pc'[p] # "rollback"

\* C38: a transfer that succeeds after retried attempts commits exactly one
\* header and exactly two ledger entries: a rolled-back attempt leaves no
\* header, entry or idempotency record behind, every attempt generates a fresh
\* transaction id, and the returned transactionId is the id of the attempt
\* that committed.
C38_RetryCommitsOnce ==
  /\ [][\A p \in Procs :
          CommitsTx(p) =>
            /\ transactions' \ transactions = pending[p].tx
            /\ Cardinality(pending[p].tx) = 1
            /\ \A t \in pending[p].tx : t.id = txId[p]
            /\ Cardinality(ledger_entries' \ ledger_entries) = 2
            /\ \A e \in ledger_entries' \ ledger_entries : e.transaction_id = txId[p]
            /\ \A k \in idempotency_keys' \ idempotency_keys : k.transaction_id = txId[p]
            /\ result'[p].status = 201
            /\ result'[p].data.transaction_id = txId[p]]_vars
  /\ [][\A p \in Procs :
          RollsBack(p) =>
            /\ UNCHANGED dbVars
            /\ pending'[p] = NoPending
            /\ attempt'[p] # attempt[p] => (txId'[p] = NoTx /\ locked'[p] = <<>>)]_vars
  /\ [][\A p \in Procs :
          (txId'[p] # txId[p] /\ txId'[p] # NoTx) =>
            /\ txId'[p] \notin TxIds
            /\ \A q \in Procs \ {p} : txId[q] # txId'[p]
            /\ txCount'[p] = txCount[p] + 1
            /\ txId'[p] = 10 * p + txCount'[p]]_vars
  /\ [](\A p \in Procs :
          pc[p] \in {"begin", "lock", "funds", "ins_tx"} => pending[p] = NoPending)

\* the only request sent committed on its third attempt: the ids of its two
\* rolled-back attempts name nothing in the database
C38_Witness ==
  /\ calls = 1
  /\ result[1].status = 201
  /\ result[1].data.transaction_id = 13
  /\ TxIds \cap {11, 12} = {}
  /\ 13 \in TxIds
  /\ Cardinality({e \in ledger_entries : e.transaction_id = 13}) = 2
  /\ ~\E e \in ledger_entries : e.transaction_id \in {11, 12}
  /\ \A k \in idempotency_keys : k.transaction_id = 13

\* the clients held by the handlers 1..n
RECURSIVE TotalOf(_, _)
TotalOf(f, n) == IF n = 0 THEN 0 ELSE f[n] + TotalOf(f, n - 1)

\* handler p is inside an attempt of withTransaction: between pool.connect()
\* and the end of its finally block
InAttempt(p) ==
  pc[p] \in {"lock", "funds", "ins_tx", "ins_debit", "ins_credit", "idem_store", "commit", "rollback"}

\* C39: every connection acquired by withTransaction is released exactly once
\* per attempt on every path (commit, non-retryable failure, each retried
\* attempt, a failing ROLLBACK): a handler holds one client while it is inside
\* an attempt and none otherwise, so the checked-out connections never exceed
\* the attempts in flight and are zero once all transfers have completed.
C39_ReleasedOncePerAttempt ==
  /\ [](\A p \in Procs : pool.client[p] = IF InAttempt(p) THEN 1 ELSE 0)
  /\ [](CheckedOut = TotalOf(pool.client, NumProcs))
  /\ [](CheckedOut <= Cardinality({p \in Procs : InAttempt(p)}))
  /\ []((\A p \in Procs : pc[p] = "idle") => CheckedOut = 0)
  /\ [][\A p \in Procs :
          (InAttempt(p) /\ (pc'[p] \in {"idle", "begin"})) =>
            /\ pool.client[p] = 1
            /\ pool'.client[p] = 0]_vars
  /\ [][\A p \in Procs :
          pool'.client[p] > pool.client[p] => (pc[p] = "begin" /\ InAttempt(p)')]_vars

\* both requests are answered and no client is checked out, after a commit and
\* an attempt whose ROLLBACK failed
C39_Witness ==
  /\ \A p \in Procs : pc[p] = "idle"
  /\ CheckedOut = 0
  /\ \E p, q \in Procs :
       /\ result[p].error = "08006"
       /\ result[q].status = 201 /\ ~result[q].from_cache

\* C37: progress with a bounded pool: with more concurrent transfers than the
\* pool has connections, every invoked transfer eventually completes (commit,
\* cached response or error) under fair scheduling: a scope issues every
\* statement on the client it holds and never waits for a second one.
C37_ProgressBoundedPool ==
  \A p \in Procs : (pc[p] # "idle") ~> (pc[p] = "idle")

\* every client of the pool is checked out by scopes in progress while another
\* invoked transfer waits for one
C37_Witness ==
  /\ pool.max < NumProcs
  /\ CheckedOut = pool.max
  /\ \E p, q \in Procs :
       /\ pc[p] = "commit" /\ pool.client[p] = 1
       /\ pc[q] \in {"idem_get", "asset_get", "begin"} /\ pool.client[q] = 0

====
